---- MODULE Spec2Model ----
(***************************************************************************)
(* Multi-agent RAG orchestrator: query classification (classify_query)     *)
(* and the orchestration pipeline (orchestrate) of agents/orchestrator.py, *)
(* with the agent invoker (agents/runner.py) and the LLM collaborator      *)
(* (agents/llm.py) as far as the pipeline observes them.                   *)
(*                                                                         *)
(* A message is a sequence of tokens: a token is a word (a maximal run of  *)
(* word characters, so that the regex anchor \b holds on both its sides)   *)
(* or the line break "\n"; neighbouring words are separated by one blank.  *)
(* A Python dict is a function from its keys to its values. A value whose  *)
(* type the code tests with isinstance is tagged: Num(h) is the number     *)
(* h/100 (0.4 is Num(40)), Str(s) a string where a dict or a number is     *)
(* looked for.                                                             *)
(***************************************************************************)
EXTENDS Integers, Sequences, FiniteSets, TLC

VARIABLES
    message,        \* user_profile["message"], as typed by the user
    provider,       \* llm_provider
    has_key,        \* llm_api_key is a non-empty string
    seed_urls,      \* number of seed URLs handed to orchestrate
    pc,             \* position of the orchestrate coroutine
    active_agents,  \* list returned by classify_query
    pages,          \* number of pages returned by fetch_pages
    evidence,       \* dict topic -> evidence bucket
    travel_out,     \* result of the travel agent, or None
    inv,            \* per agent: state of its run_agent invocation
    payloads,       \* per agent: the payload run_agent handed to the LLM, or None
    outcome,        \* per agent: what its invocation returned or raised
    started,        \* agents in the order in which their invocations began
    finished,       \* agents in the order in which their invocations ended
    concurrent_tasks, \* keys of the dict of asyncio tasks, in insertion order
    results,        \* dict agent -> result
    timings,        \* keys of the timings dict (values are wall-clock durations)
    conflicts,      \* list returned by _detect_conflicts
    response,       \* dict returned by orchestrate, or None
    raised,         \* exception raised to the caller, or None
    llm_calls,      \* calls made to call_llm_json, in order
    docs,           \* rank_chunks: the documents
    top_k,          \* rank_chunks: top_k
    chunks,         \* rank_chunks: the windows of all documents, in order
    candidates,     \* rank_chunks: the candidate list handed on by the running stage
    first_stage,    \* rank_chunks: the candidates as the first stage returned them
    scorer_calls,   \* rank_chunks: scorers invoked, with the number of texts or pairs
    ranked,         \* rank_chunks: the list returned, or None
    max_retries,    \* call_llm_json: cfg.max_retries
    attempt,        \* call_llm_json: the loop variable, 0 before the loop
    requests,       \* call_llm_json: what each request sent so far was answered with
    sleeps,         \* call_llm_json: the backoff waits so far, in seconds
    llm_result,     \* call_llm_json: what the call returned or raised, or None
    seeds,          \* fetch_pages: seed_urls
    allowed_domains, \* fetch_pages: allowed_domains
    page_budget,    \* fetch_pages: k
    urls,           \* fetch_pages: the URLs selected for fetching
    requested,      \* fetch_pages: the URLs requested over HTTP, in order
    rank_call,      \* how many rank_chunks calls the process has begun
    model_cache,    \* the lru_cache of _get_bi_encoder and of _get_cross_encoder
    loader_log,     \* every call of the two cached loaders, in order
    stage_calls,    \* the calls of fetch_pages and rank_chunks orchestrate made, in order
    fetch_results,  \* fetch_pages: per selected URL, what its _fetch_one task returned
    fetched         \* fetch_pages: the list returned, or None

vars == << message, provider, has_key, seed_urls, pc, active_agents, pages,
           evidence, travel_out, inv, payloads, outcome, started, finished,
           concurrent_tasks, results, timings, conflicts, response, raised,
           llm_calls, docs, top_k, chunks, candidates, first_stage,
           scorer_calls, ranked, max_retries, attempt, requests, sleeps,
           llm_result, seeds, allowed_domains, page_budget, urls, requested,
           fetch_results, fetched, stage_calls, rank_call, model_cache,
           loader_log >>

loaderVars == << rank_call, model_cache, loader_log >>

llmVars == << max_retries, attempt, requests, sleeps, llm_result >>

fetchVars == << seeds, allowed_domains, page_budget, urls, requested,
               fetch_results, fetched >>

rankVars == << docs, top_k, chunks, candidates, first_stage, scorer_calls, ranked >>

None == [none |-> TRUE]

\* a JSON number, in hundredths
Num(h) == [num |-> h]
\* a JSON string found where the code looks for a number or a dict
Str(s) == [str |-> s]
\* isinstance(x, (int, float))
IsNumber(x) == "num" \in DOMAIN x
\* isinstance(x, dict)
IsDict(x) == "num" \notin DOMAIN x /\ "str" \notin DOMAIN x
EmptyDict == [x \in {} |-> None]

----------------------------------------------------------------------------
(* Bounds *)

MaxMsgLen == 3
MaxOrchMsgLen == 2
MaxSeeds == 1
MaxDocs == 2
MaxTopK == 2
MaxRisks == 2
MaxRetries == 3
MaxSeedUrls == 3
MaxBudget == 2
MaxLines == 3
MaxRanked == 7
MaxRankCalls == 3

----------------------------------------------------------------------------
(* Python helpers *)

\* d.get(k, default)
Get(d, k, default) == IF k \in DOMAIN d THEN d[k] ELSE default

\* x in list
InList(x, list) == \E i \in 1..Len(list) : list[i] = x

\* all sequences over S of length at most n
SeqsUpTo(S, n) == UNION { [1..k -> S] : k \in 0..n }

----------------------------------------------------------------------------
(* Query classification *)

Word(w) == [kind |-> "word", words |-> <<w>>]
\* \ba\b.*\bb\b : a, then anything but a line break, then b
Gap(a, b) == [kind |-> "gap", words |-> <<a, b>>]
\* \bw1\s+w2\s+...\b : the words in a row, separated by white space
Phrase(ws) == [kind |-> "phrase", words |-> ws]
\* \ba\s*b\b : the two words separated by white space, or written as one
OptPhrase(a, b, ab) == [kind |-> "optphrase", words |-> <<a, b>>, joined |-> ab]

_TRAVEL_PATTERNS ==
    << Word("trip"), Word("travel"), Word("flight"), Word("fly"), Word("train"),
       Word("bus"), Word("route"), Word("hotel"), Word("stay"), Word("book"),
       Word("itinerary"), Word("visit"), Word("tour"), Word("vacation"),
       Gap("from", "to"), Word("destination"), Word("hostel"), Word("resort"),
       Word("airbnb"), Word("accommodation"), Phrase(<<"plan", "a", "trip">>) >>

_HEALTH_PATTERNS ==
    << Word("doctor"), Word("health"), Word("medical"), Word("disease"),
       Word("symptom"), Word("treatment"), Word("diagnos"), Word("specialist"),
       Word("hospital"), Word("pain"), Word("fever"), Word("cough"),
       Word("heart"), Word("diabet"), Word("cancer"), Word("skin"),
       Word("eye"), Word("dental"), Word("mental"), Word("depression"),
       Word("anxiety"), Word("wellness"), Word("nutrition"), Word("diet"),
       Word("surger"), Word("therapy"), Word("infection"), Word("allerg"),
       Word("bone"), Word("joint"), Word("headache"), Word("migraine"),
       OptPhrase("blood", "pressure", "bloodpressure"), Word("cholesterol"),
       Word("lung"), Word("kidney") >>

_FINANCE_PATTERNS ==
    << Word("budget"), Word("finance"), Word("invest"), Word("saving"),
       Word("money"), Word("cost"), Word("afford"), Word("expense"),
       Word("tax"), Word("loan"), Word("insurance"), Word("retirement") >>

\* str.lower() on a token
LowerToken(w) ==
    CASE w = "Trip" -> "trip"
      [] w = "BUDGET" -> "budget"
      [] w = "Booking" -> "booking"
      [] OTHER -> w

Lower(msg) == [i \in 1..Len(msg) |-> LowerToken(msg[i])]

IsBreak(w) == w = "\n"

\* ws occurs in msg as a run of neighbouring tokens
HasRun(msg, ws) ==
    \E i \in 1..Len(msg) :
        /\ i + Len(ws) - 1 <= Len(msg)
        /\ \A k \in 1..Len(ws) : msg[i + k - 1] = ws[k]

NotBreak(w) == ~ IsBreak(w)

\* re.search(p, msg) is not None
Search(p, msg) ==
    CASE p.kind = "word" -> InList(p.words[1], msg)
      [] p.kind = "gap" ->
            \E i, j \in 1..Len(msg) :
                /\ i < j
                /\ msg[i] = p.words[1]
                /\ msg[j] = p.words[2]
                /\ \A k \in (i + 1)..(j - 1) : ~ IsBreak(msg[k])
      [] p.kind = "phrase" -> HasRun(SelectSeq(msg, NotBreak), p.words)
      [] p.kind = "optphrase" ->
            \/ HasRun(SelectSeq(msg, NotBreak), p.words)
            \/ InList(p.joined, msg)

\* sum(1 for p in patterns if re.search(p, msg))
Score(patterns, msg) ==
    Cardinality({ i \in 1..Len(patterns) : Search(patterns[i], msg) })

AppendIf(cond, list, x) == IF cond THEN Append(list, x) ELSE list

\* variant: no coupling rule
ClassifyNoCoupling(agents) == agents

\* variant: the coupling rule does not test whether financial is already in
ClassifyCouplingUnguarded(agents) ==
    AppendIf(InList("travel", agents), agents, "financial")

ClassifyCoupling(agents) ==
    AppendIf(InList("travel", agents) /\ ~ InList("financial", agents),
             agents, "financial")

\* variant: the default runs the travel agent only
ClassifyDefaultTravelOnly(agents) ==
    IF agents = << >> THEN <<"travel">> ELSE agents

ClassifyDefault(agents) ==
    IF agents = << >> THEN <<"travel", "financial", "health">> ELSE agents

\* variant: a topic is active from two matching patterns on
ClassifyScoredTwice(travel_score, health_score, finance_score) ==
    LET a1 == AppendIf(travel_score >= 2, << >>, "travel")
        a2 == AppendIf(health_score >= 2, a1, "health")
        a3 == AppendIf(finance_score >= 2, a2, "financial")
    IN  a3

\* variant: the topics are tested in the order travel, finance, health
ClassifyScoredCanonical(travel_score, health_score, finance_score) ==
    LET a1 == AppendIf(travel_score >= 1, << >>, "travel")
        a2 == AppendIf(finance_score >= 1, a1, "financial")
        a3 == AppendIf(health_score >= 1, a2, "health")
    IN  a3

ClassifyScored(travel_score, health_score, finance_score) ==
    LET a1 == AppendIf(travel_score >= 1, << >>, "travel")
        a2 == AppendIf(health_score >= 1, a1, "health")
        a3 == AppendIf(finance_score >= 1, a2, "financial")
    IN  a3

classify_query(m) ==
    LET msg == Lower(m)
        travel_score == Score(_TRAVEL_PATTERNS, msg)
        health_score == Score(_HEALTH_PATTERNS, msg)
        finance_score == Score(_FINANCE_PATTERNS, msg)
    IN  ClassifyDefault(ClassifyCoupling(
            ClassifyScored(travel_score, health_score, finance_score)))

----------------------------------------------------------------------------
(* Inputs *)

Agents == {"travel", "financial", "health"}

\* tokens of the messages classify_query is explored on
Vocab == {"trip", "Trip", "from", "to", "\n", "doctor", "BUDGET", "hello", "trips"}

\* tokens of the messages orchestrate is explored on
OrchVocab == {"trip", "doctor", "BUDGET", "hello"}

\* "groq" is in no provider table
Providers == {"stub", "grok", "groq"}

----------------------------------------------------------------------------
(* LLM collaborator, as run_agent's callers observe it *)

_PROVIDER_URLS == {"grok", "openai_compatible"}

LLMError(msg) == [exc |-> "LLMError", msg |-> msg]

Return(value) == [kind |-> "return", value |-> value]
Raise(error) == [kind |-> "raise", error |-> error]

PROMPTS(name) ==
    CASE name = "travel" -> "TRAVEL_AGENT_PROMPT_V11"
      [] name = "financial" -> "FINANCIAL_AGENT_PROMPT_V11"
      [] name = "health" -> "HEALTH_AGENT_PROMPT_V11"

\* keys of PROMPTS
PromptNames == {"travel", "financial", "health"}

KeyError(key) == [exc |-> "KeyError", msg |-> key]

\* variant: an unknown name falls back to a default prompt
PromptOfDefault(name) ==
    IF name \in PromptNames THEN [kind |-> "return", value |-> PROMPTS(name)]
    ELSE [kind |-> "return", value |-> "TRAVEL_AGENT_PROMPT_V11"]

\* prompt = PROMPTS[name]: the prompt, or the KeyError of the lookup
PromptOf(name) ==
    IF name \in PromptNames THEN [kind |-> "return", value |-> PROMPTS(name)]
    ELSE [kind |-> "raise", error |-> KeyError(name)]

\* prompt[:500]
Prefix500(prompt) == <<prompt, 500>>

\* variant: the placeholder of the stub mode is not flagged
StubResultUnflagged(prompt, payload) ==
    [x \in {"prompt_used", "input", "note"} |->
        CASE x = "prompt_used" -> Prefix500(prompt)
          [] x = "input" -> payload
          [] x = "note" -> "Set llm_provider='grok' and env GROK_API_KEY for real outputs."]

\* variant: the stub mode returns an empty input
StubResultNoEcho(prompt, payload) ==
    [x \in {"_stub", "prompt_used", "input", "note"} |->
        CASE x = "_stub" -> TRUE
          [] x = "prompt_used" -> Prefix500(prompt)
          [] x = "input" -> EmptyDict
          [] x = "note" -> "Set llm_provider='grok' and env GROK_API_KEY for real outputs."]

StubResult(prompt, payload) ==
    [x \in {"_stub", "prompt_used", "input", "note"} |->
        CASE x = "_stub" -> TRUE
          [] x = "prompt_used" -> Prefix500(prompt)
          [] x = "input" -> payload
          [] x = "note" -> "Set llm_provider='grok' and env GROK_API_KEY for real outputs."]

Risk(risk, severity) == [risk |-> risk, severity |-> severity, mitigation |-> "m"]

Usage == [tokens |-> 0, latency_ms |-> 0, retries |-> 0]

\* JSON objects the model answers with, after call_llm_json has added
\* "_usage". They have the AgentEnvelope shape (plan a map, risks a list of
\* maps, confidence a number): the code does not validate a reply, and
\* _detect_conflicts is written for this shape only.
ModelReplies(name) ==
    { [x \in {"agent", "plan", "risks", "confidence", "_usage"} |->
        CASE x = "agent" -> name
          [] x = "plan" -> [travel_affordability_check |-> [status |-> "ok"]]
          [] x = "risks" -> << >>
          [] x = "confidence" -> Num(90)
          [] x = "_usage" -> Usage],
      [x \in {"agent", "plan", "risks", "confidence", "_usage"} |->
        CASE x = "agent" -> name
          [] x = "plan" -> [travel_affordability_check |-> [status |-> "likely_not_ok"]]
          [] x = "risks" -> << Risk("monsoon season", "high") >>
          [] x = "confidence" -> Num(20)
          [] x = "_usage" -> Usage] }

\* messages of the LLMError a call that reached the network ends with
ModelFailures ==
    { "LLM call failed after 3 attempts", "Invalid JSON from model" }

\* call_llm_json reaches its first await (the HTTP request)
Suspends(cfg) == cfg.provider # "stub" /\ cfg.provider \in _PROVIDER_URLS /\ cfg.api_key

\* what call_llm_json returns or raises
call_llm_json(name, prompt, payload, cfg) ==
    IF cfg.provider = "stub" THEN { Return(StubResult(prompt, payload)) }
    ELSE IF cfg.provider \notin _PROVIDER_URLS
        THEN { Raise(LLMError("Unknown provider")) }
    ELSE IF ~ cfg.api_key
        THEN { Raise(LLMError("Missing API key. Set GROK_API_KEY or LLM_API_KEY env var.")) }
    ELSE { Return(r) : r \in ModelReplies(name) }
            \cup { Raise(LLMError(m)) : m \in ModelFailures }

\* bool(x) of a dict or None
Truthy(x) == x # None /\ DOMAIN x # {}

\* variant: the upstream argument is never handed on
PayloadNoUpstream(user_profile, ev, upstream) ==
    [x \in {"user_profile", "evidence"} |->
        CASE x = "user_profile" -> user_profile
          [] x = "evidence" -> ev]

\* payload run_agent builds
Payload(user_profile, ev, upstream) ==
    [x \in {"user_profile", "evidence"} \cup (IF Truthy(upstream) THEN {"upstream"} ELSE {}) |->
        CASE x = "user_profile" -> user_profile
          [] x = "evidence" -> ev
          [] x = "upstream" -> upstream]

----------------------------------------------------------------------------
(* Conflict detection *)

\* agent_name.title()
Title(name) ==
    CASE name = "travel" -> "Travel"
      [] name = "financial" -> "Financial"
      [] name = "health" -> "Health"

\* variant: the elif branch is missing
AffordabilityRiskOnly(res) ==
    LET fin == Get(res, "financial", EmptyDict)
        afford == Get(Get(fin, "plan", EmptyDict), "travel_affordability_check", EmptyDict)
    IN  IF Get(afford, "status", "") = "likely_not_ok" THEN << <<"affordability risk">> >>
        ELSE << >>

\* variant: every status but "likely_ok" and "uncertain" counts as a risk
AffordabilityUnlessOk(res) ==
    LET fin == Get(res, "financial", EmptyDict)
        afford == Get(Get(fin, "plan", EmptyDict), "travel_affordability_check", EmptyDict)
        status == Get(afford, "status", "")
    IN  IF status = "likely_ok" THEN << >>
        ELSE IF status = "uncertain" THEN << <<"uncertain about affordability">> >>
        ELSE << <<"affordability risk">> >>

AffordabilityConflicts(res) ==
    LET fin == Get(res, "financial", EmptyDict)
        afford == Get(Get(fin, "plan", EmptyDict), "travel_affordability_check", EmptyDict)
        status == Get(afford, "status", "")
    IN  IF status = "likely_not_ok" THEN << <<"affordability risk">> >>
        ELSE IF status = "uncertain" THEN << <<"uncertain about affordability">> >>
        ELSE << >>

RECURSIVE HighRisksOf(_, _)
HighRisksOf(name, risks) ==
    IF risks = << >> THEN << >>
    ELSE (IF IsDict(Head(risks)) /\ Get(Head(risks), "severity", "") = "high"
            THEN << <<"high-severity risk", Title(name), Get(Head(risks), "risk", "unknown")>> >>
            ELSE << >>)
         \o HighRisksOf(name, Tail(risks))

RECURSIVE HighRiskConflicts(_, _)
HighRiskConflicts(res, keys) ==
    IF keys = << >> THEN << >>
    ELSE HighRisksOf(Head(keys), Get(res[Head(keys)], "risks", << >>))
         \o HighRiskConflicts(res, Tail(keys))

RECURSIVE LowConfidenceConflicts(_, _)
LowConfidenceConflicts(res, keys) ==
    IF keys = << >> THEN << >>
    ELSE (LET conf == Get(res[Head(keys)], "confidence", Num(100))
          IN  IF IsNumber(conf) /\ conf.num < 40
                THEN << <<"low confidence", Title(Head(keys)), conf.num>> >>
                ELSE << >>)
         \o LowConfidenceConflicts(res, Tail(keys))

\* variant: the loop over risks is missing
DetectConflictsNoHighRisk(res, keys) ==
    AffordabilityConflicts(res) \o LowConfidenceConflicts(res, keys)

\* variant: only the first agent's confidence is looked at
DetectConflictsFirstConfidence(res, keys) ==
    AffordabilityConflicts(res) \o HighRiskConflicts(res, keys)
        \o LowConfidenceConflicts(res, IF keys = << >> THEN keys ELSE << Head(keys) >>)

\* keys lists the keys of res in the dict's iteration (insertion) order
_detect_conflicts(res, keys) ==
    AffordabilityConflicts(res) \o HighRiskConflicts(res, keys)
        \o LowConfidenceConflicts(res, keys)

----------------------------------------------------------------------------
(* orchestrate *)

user_profile == [message |-> message]

\* LLMConfig(provider=llm_provider, api_key=llm_api_key, ...)
llm == [provider |-> provider, api_key |-> has_key]

\* variant: every agent's topic is its own name
TopicIsName(agent_name) == agent_name

topic_map(agent_name) == IF agent_name = "financial" THEN "finance" ELSE agent_name

\* f"{name}_agent_ms"
AgentTimingKey(name) ==
    CASE name = "travel" -> "travel_agent_ms"
      [] name = "financial" -> "financial_agent_ms"
      [] name = "health" -> "health_agent_ms"

\* _to_evidence(rank_chunks(_build_query(topic, user_profile), pages, top_k=k)):
\* the bucket ranked for the topic out of the fetched pages
RankedEvidence(topic, npages) ==
    IF npages > 0 THEN << [ranked_for |-> topic, of_pages |-> npages] >> ELSE << >>

\* Stage 0: classify the query
Classify ==
    /\ pc = "classify"
    /\ active_agents' = classify_query(Get(user_profile, "message", << >>))
    /\ pc' = "fetch"
    /\ UNCHANGED << rankVars, llmVars, fetchVars, loaderVars, stage_calls, llm_calls, message, provider, has_key, seed_urls, pages, evidence,
                    travel_out, inv, payloads, outcome, started, finished,
                    concurrent_tasks, results, timings, conflicts, response, raised >>

StageCall(fn, topic) == [fn |-> fn, topic |-> topic]

\* variant: fetch_pages is called whether there are seed URLs or not
FetchPagesAlways ==
    /\ pc = "fetch"
    /\ pages' \in 0..seed_urls
    /\ stage_calls' = Append(stage_calls, StageCall("fetch_pages", ""))
    /\ timings' = timings \cup {"fetch_pages_ms"}
    /\ pc' = "rank"
    /\ UNCHANGED << rankVars, llmVars, fetchVars, loaderVars, llm_calls, message, provider, has_key, seed_urls, active_agents, evidence,
                    travel_out, inv, payloads, outcome, started, finished,
                    concurrent_tasks, results, conflicts, response, raised >>

\* Stage 1: fetch pages when there are seed URLs; fetch_pages drops every
\* page that fails
FetchPages ==
    /\ pc = "fetch"
    /\ IF seed_urls > 0
         THEN /\ pages' \in 0..seed_urls
              /\ stage_calls' = Append(stage_calls, StageCall("fetch_pages", ""))
         ELSE /\ pages' = 0
              /\ UNCHANGED stage_calls
    /\ timings' = timings \cup {"fetch_pages_ms"}
    /\ pc' = "rank"
    /\ UNCHANGED << rankVars, llmVars, fetchVars, loaderVars, llm_calls, message, provider, has_key, seed_urls, active_agents, evidence,
                    travel_out, inv, payloads, outcome, started, finished,
                    concurrent_tasks, results, conflicts, response, raised >>

\* what rank_chunks raises when the semantic and the lexical scorer both fail
ScorerError == [exc |-> "Exception", msg |-> "scorer"]

\* the rank_chunks calls of the first n rounds of the loop over active_agents
RankCalls(n) ==
    IF pages > 0
        THEN [i \in 1..n |-> StageCall("rank_chunks", topic_map(active_agents[i]))]
        ELSE << >>

\* Stage 2: one evidence bucket per active agent's topic; rank_chunks is
\* called only when there are pages, outside any try, and what it raises
\* leaves orchestrate
RankEvidence ==
    /\ pc = "rank"
    /\ \/ /\ evidence' = [t \in { topic_map(active_agents[i]) : i \in 1..Len(active_agents) } |->
                               RankedEvidence(t, pages)]
          /\ stage_calls' = stage_calls \o RankCalls(Len(active_agents))
          /\ timings' = timings \cup {"rag_rank_ms"}
          /\ pc' = "travel"
          /\ UNCHANGED raised
       \/ /\ pages > 0
          /\ \E n \in 1..Len(active_agents) : stage_calls' = stage_calls \o RankCalls(n)
          /\ raised' = ScorerError
          /\ pc' = "raised"
          /\ UNCHANGED << evidence, timings >>
    /\ UNCHANGED << rankVars, llmVars, fetchVars, loaderVars, llm_calls, message, provider, has_key, seed_urls, active_agents, pages,
                    travel_out, inv, payloads, outcome, started, finished,
                    concurrent_tasks, results, conflicts, response >>

\* an invocation ends, returning or raising o
Finish(name, o) ==
    /\ inv' = [inv EXCEPT ![name] = IF o.kind = "return" THEN "returned" ELSE "raised"]
    /\ outcome' = [outcome EXCEPT ![name] = o]
    /\ finished' = Append(finished, name)

\* run_agent(name, ...) begins to execute: it runs up to its first await, or to
\* its end when call_llm_json returns or raises without awaiting
Begin(name, upstream) ==
    LET prompt == PromptOf(name)
        payload == Payload(user_profile, Get(evidence, topic_map(name), << >>), upstream)
    IN  /\ started' = Append(started, name)
        /\ IF prompt.kind = "raise"
             THEN /\ Finish(name, prompt)
                  /\ UNCHANGED << payloads, llm_calls >>
             ELSE /\ payloads' = [payloads EXCEPT ![name] = payload]
                  /\ llm_calls' = Append(llm_calls, [prompt |-> prompt.value, payload |-> payload])
                  /\ IF Suspends(llm)
                       THEN /\ inv' = [inv EXCEPT ![name] = "running"]
                            /\ UNCHANGED << outcome, finished >>
                       ELSE \E o \in call_llm_json(name, prompt.value, payload, llm) :
                                Finish(name, o)

\* the HTTP exchange of a suspended invocation ends
Complete(name) ==
    /\ inv[name] = "running"
    /\ \E o \in call_llm_json(name, PromptOf(name).value, payloads[name], llm) : Finish(name, o)
    /\ UNCHANGED << rankVars, llmVars, fetchVars, loaderVars, stage_calls, llm_calls, message, provider, has_key, seed_urls, pc, active_agents, pages,
                    evidence, travel_out, payloads, started, concurrent_tasks,
                    results, timings, conflicts, response, raised >>

\* Stage 3: travel is not active
SkipTravel ==
    /\ pc = "travel"
    /\ ~ InList("travel", active_agents)
    /\ pc' = "fanout"
    /\ UNCHANGED << rankVars, llmVars, fetchVars, loaderVars, stage_calls, llm_calls, message, provider, has_key, seed_urls, active_agents, pages,
                    evidence, travel_out, inv, payloads, outcome, started, finished,
                    concurrent_tasks, results, timings, conflicts, response, raised >>

\* variant: the travel agent is started but not awaited before the fan-out
CallTravelNoAwait ==
    /\ pc = "travel"
    /\ InList("travel", active_agents)
    /\ Begin("travel", None)
    /\ pc' = "fanout"
    /\ UNCHANGED << rankVars, llmVars, fetchVars, loaderVars, stage_calls, message, provider, has_key, seed_urls, active_agents, pages,
                    evidence, travel_out, concurrent_tasks, results, timings,
                    conflicts, response, raised >>

\* Stage 3: travel_out = await run_agent("travel", ...)
CallTravel ==
    /\ pc = "travel"
    /\ InList("travel", active_agents)
    /\ Begin("travel", None)
    /\ pc' = "await_travel"
    /\ UNCHANGED << rankVars, llmVars, fetchVars, loaderVars, stage_calls, message, provider, has_key, seed_urls, active_agents, pages,
                    evidence, travel_out, concurrent_tasks, results, timings,
                    conflicts, response, raised >>

\* the await of the travel agent ends: its result is recorded, or its
\* exception leaves orchestrate
ResumeTravel ==
    /\ pc = "await_travel"
    /\ inv["travel"] \in {"returned", "raised"}
    /\ IF inv["travel"] = "returned"
         THEN /\ travel_out' = outcome["travel"].value
              /\ results' = [x \in DOMAIN results \cup {"travel"} |->
                                IF x = "travel" THEN outcome["travel"].value ELSE results[x]]
              /\ timings' = timings \cup {AgentTimingKey("travel")}
              /\ pc' = "fanout"
              /\ UNCHANGED raised
         ELSE /\ raised' = outcome["travel"].error
              /\ pc' = "raised"
              /\ UNCHANGED << travel_out, results, timings >>
    /\ UNCHANGED << rankVars, llmVars, fetchVars, loaderVars, stage_calls, llm_calls, message, provider, has_key, seed_urls, active_agents, pages,
                    evidence, inv, payloads, outcome, started, finished,
                    concurrent_tasks, conflicts, response >>

IsFanOutAgent(name) == name \in {"financial", "health"}

\* asyncio.create_task for financial, then for health, when active
CreateTasks ==
    /\ pc = "fanout"
    /\ concurrent_tasks' =
            AppendIf(InList("health", active_agents),
                     AppendIf(InList("financial", active_agents), << >>, "financial"),
                     "health")
    /\ inv' = [a \in Agents |-> IF InList(a, concurrent_tasks') THEN "created" ELSE inv[a]]
    /\ pc' = IF concurrent_tasks' # << >> THEN "gather" ELSE "conflicts"
    /\ UNCHANGED << rankVars, llmVars, fetchVars, loaderVars, stage_calls, llm_calls, message, provider, has_key, seed_urls, active_agents, pages,
                    evidence, travel_out, payloads, outcome, started, finished,
                    results, timings, conflicts, response, raised >>

\* variant: the fan-out agents are invoked without upstream
StartTaskNoUpstream(name) ==
    /\ pc = "gather"
    /\ inv[name] = "created"
    /\ \A i \in 1..Len(concurrent_tasks) :
            concurrent_tasks[i] = name =>
                \A j \in 1..(i - 1) : inv[concurrent_tasks[j]] # "created"
    /\ Begin(name, None)
    /\ UNCHANGED << rankVars, llmVars, fetchVars, loaderVars, stage_calls, message, provider, has_key, seed_urls, pc, active_agents, pages,
                    evidence, travel_out, concurrent_tasks, results, timings,
                    conflicts, response, raised >>

\* variant: a task begins only when the tasks created before it have ended
StartTaskInTurn(name) ==
    /\ pc = "gather"
    /\ inv[name] = "created"
    /\ \A i \in 1..Len(concurrent_tasks) :
            concurrent_tasks[i] = name =>
                \A j \in 1..(i - 1) : inv[concurrent_tasks[j]] \in {"returned", "raised"}
    /\ Begin(name, travel_out)
    /\ UNCHANGED << rankVars, llmVars, fetchVars, loaderVars, stage_calls, message, provider, has_key, seed_urls, pc, active_agents, pages,
                    evidence, travel_out, concurrent_tasks, results, timings,
                    conflicts, response, raised >>

\* the event loop runs a created task while orchestrate waits in gather;
\* tasks become ready in the order of their creation
StartTask(name) ==
    /\ pc = "gather"
    /\ inv[name] = "created"
    /\ \A i \in 1..Len(concurrent_tasks) :
            concurrent_tasks[i] = name =>
                \A j \in 1..(i - 1) : inv[concurrent_tasks[j]] # "created"
    /\ Begin(name, travel_out)
    /\ UNCHANGED << rankVars, llmVars, fetchVars, loaderVars, stage_calls, message, provider, has_key, seed_urls, pc, active_agents, pages,
                    evidence, travel_out, concurrent_tasks, results, timings,
                    conflicts, response, raised >>

\* variant: the placeholder carries the default confidence
PlaceholderFullConfidence(exc) == [error |-> exc.msg, confidence |-> Num(100)]

\* variant: the placeholder carries no confidence
PlaceholderNoConfidence(exc) == [error |-> exc.msg]

\* {"error": str(result), "confidence": 0.0}
Placeholder(exc) == [error |-> exc.msg, confidence |-> Num(0)]

\* one element of gather(..., return_exceptions=True) turned into its slot
Slot(o) == IF o.kind = "raise" THEN Placeholder(o.error) ELSE o.value

\* done = await gather(*tasks, return_exceptions=True): in the tasks' order
Gathered == [i \in 1..Len(concurrent_tasks) |-> outcome[concurrent_tasks[i]]]

\* the fan-out agents in the order in which their invocations ended
FinishedTasks == SelectSeq(finished, IsFanOutAgent)

\* variant: the outcomes are paired with the keys in completion order
ZippedByCompletion(name, done) ==
    Slot(outcome[FinishedTasks[CHOOSE i \in 1..Len(concurrent_tasks) : concurrent_tasks[i] = name]])

\* zip(concurrent_tasks.keys(), done): the slot written for name
Zipped(name, done) ==
    Slot(done[CHOOSE i \in 1..Len(concurrent_tasks) : concurrent_tasks[i] = name])

\* gather has returned: every task has ended
AllTasksEnded ==
    \A i \in 1..Len(concurrent_tasks) : inv[concurrent_tasks[i]] \in {"returned", "raised"}

\* the loop over zip(concurrent_tasks.keys(), done)
JoinWrites ==
    /\ results' = [x \in DOMAIN results
                        \cup { concurrent_tasks[i] : i \in 1..Len(concurrent_tasks) } |->
                     IF InList(x, concurrent_tasks) THEN Zipped(x, Gathered) ELSE results[x]]
    /\ timings' = timings
                    \cup { AgentTimingKey(concurrent_tasks[i]) : i \in 1..Len(concurrent_tasks) }
    /\ pc' = "conflicts"
    /\ UNCHANGED raised

\* variant: gather without return_exceptions, the first exception in the
\* tasks' order leaves orchestrate
JoinFailFast ==
    /\ pc = "gather"
    /\ AllTasksEnded
    /\ IF \E i \in 1..Len(concurrent_tasks) : inv[concurrent_tasks[i]] = "raised"
         THEN /\ raised' = outcome[concurrent_tasks[
                                CHOOSE i \in 1..Len(concurrent_tasks) :
                                    /\ inv[concurrent_tasks[i]] = "raised"
                                    /\ \A j \in 1..(i - 1) : inv[concurrent_tasks[j]] # "raised"]].error
              /\ pc' = "raised"
              /\ UNCHANGED << results, timings >>
         ELSE JoinWrites
    /\ UNCHANGED << rankVars, llmVars, fetchVars, loaderVars, stage_calls, llm_calls, message, provider, has_key, seed_urls, active_agents, pages,
                    evidence, travel_out, inv, payloads, outcome, started, finished,
                    concurrent_tasks, conflicts, response >>

\* variant: a failed task is logged and gets no slot
JoinSkipFailed ==
    /\ pc = "gather"
    /\ AllTasksEnded
    /\ results' = [x \in DOMAIN results
                        \cup { concurrent_tasks[i] : i \in { j \in 1..Len(concurrent_tasks) :
                                                            inv[concurrent_tasks[j]] = "returned" } } |->
                     IF InList(x, concurrent_tasks) THEN Zipped(x, Gathered) ELSE results[x]]
    /\ timings' = timings
                    \cup { AgentTimingKey(concurrent_tasks[i]) : i \in 1..Len(concurrent_tasks) }
    /\ pc' = "conflicts"
    /\ UNCHANGED << rankVars, llmVars, fetchVars, loaderVars, stage_calls, llm_calls, message, provider, has_key, seed_urls, active_agents, pages,
                    evidence, travel_out, inv, payloads, outcome, started, finished,
                    concurrent_tasks, conflicts, response, raised >>

\* variant: the wait ends with the first task that ends, and a task still
\* running gets a placeholder
JoinEarly ==
    /\ pc = "gather"
    /\ \E i \in 1..Len(concurrent_tasks) : inv[concurrent_tasks[i]] \in {"returned", "raised"}
    /\ results' = [x \in DOMAIN results
                        \cup { concurrent_tasks[i] : i \in 1..Len(concurrent_tasks) } |->
                     IF ~ InList(x, concurrent_tasks) THEN results[x]
                     ELSE IF inv[x] \in {"returned", "raised"} THEN Slot(outcome[x])
                     ELSE Placeholder([msg |-> "pending"])]
    /\ timings' = timings
                    \cup { AgentTimingKey(concurrent_tasks[i]) : i \in 1..Len(concurrent_tasks) }
    /\ pc' = "conflicts"
    /\ UNCHANGED << rankVars, llmVars, fetchVars, loaderVars, stage_calls, llm_calls, message, provider, has_key, seed_urls, active_agents, pages,
                    evidence, travel_out, inv, payloads, outcome, started, finished,
                    concurrent_tasks, conflicts, response, raised >>

\* gather returns once every task has ended; the loop then writes the slots
Join ==
    /\ pc = "gather"
    /\ AllTasksEnded
    /\ JoinWrites
    /\ UNCHANGED << rankVars, llmVars, fetchVars, loaderVars, stage_calls, llm_calls, message, provider, has_key, seed_urls, active_agents, pages,
                    evidence, travel_out, inv, payloads, outcome, started, finished,
                    concurrent_tasks, conflicts, response >>

\* keys of the results dict in insertion order
ResultKeys == SelectSeq(<<"travel", "financial", "health">>, LAMBDA a : a \in DOMAIN results)

\* Stage 4: conflict detection
DetectConflicts ==
    /\ pc = "conflicts"
    /\ conflicts' = _detect_conflicts(results, ResultKeys)
    /\ timings' = timings \cup {"total_ms"}
    /\ pc' = "emit"
    /\ UNCHANGED << rankVars, llmVars, fetchVars, loaderVars, stage_calls, llm_calls, message, provider, has_key, seed_urls, active_agents, pages,
                    evidence, travel_out, inv, payloads, outcome, started, finished,
                    concurrent_tasks, results, response, raised >>

\* the response dict before response.update(results)
ResponseBase ==
    [x \in {"evidence", "active_agents", "conflicts", "_meta"} |->
        CASE x = "evidence" -> evidence
          [] x = "active_agents" -> active_agents
          [] x = "conflicts" -> conflicts
          [] x = "_meta" -> [timings |-> timings, pages_fetched |-> pages]]

\* response.update(results); return response
Emit ==
    /\ pc = "emit"
    /\ response' = results @@ ResponseBase
    /\ pc' = "done"
    /\ UNCHANGED << rankVars, llmVars, fetchVars, loaderVars, stage_calls, llm_calls, message, provider, has_key, seed_urls, active_agents, pages,
                    evidence, travel_out, inv, payloads, outcome, started, finished,
                    concurrent_tasks, results, timings, conflicts, raised >>

\* no run_agent(name, ...) with name in names has begun
NoInvocation(names) ==
    /\ inv = [a \in names |-> "none"]
    /\ payloads = [a \in names |-> None]
    /\ outcome = [a \in names |-> None]
    /\ started = << >>
    /\ finished = << >>
    /\ llm_calls = << >>

\* the locals of orchestrate before stage 0, results apart
OtherLocals ==
    /\ active_agents = << >>
    /\ pages = 0
    /\ evidence = EmptyDict
    /\ travel_out = None
    /\ stage_calls = << >>
    /\ concurrent_tasks = << >>
    /\ timings = {}
    /\ conflicts = << >>
    /\ response = None
    /\ raised = None

\* the locals of orchestrate before stage 0
Locals ==
    /\ OtherLocals
    /\ NoInvocation(Agents)
    /\ results = EmptyDict

Start ==
    /\ pc = "classify"
    /\ Locals

ModelNames == {"bi_encoder", "cross_encoder"}

\* no model has been asked for
NoLoaders ==
    /\ rank_call = 0
    /\ model_cache = [m \in ModelNames |-> None]
    /\ loader_log = << >>

\* no rank_chunks call is looked into
NoRank ==
    /\ docs = << >>
    /\ top_k = 0
    /\ chunks = << >>
    /\ candidates = << >>
    /\ first_stage = << >>
    /\ scorer_calls = << >>
    /\ ranked = None

\* no call_llm_json call is looked into
NoLLM ==
    /\ max_retries = 3
    /\ attempt = 0
    /\ requests = << >>
    /\ sleeps = << >>
    /\ llm_result = None

\* no fetch_pages call is looked into
NoFetch ==
    /\ seeds = << >>
    /\ allowed_domains = << >>
    /\ page_budget = 0
    /\ urls = << >>
    /\ requested = << >>
    /\ fetch_results = << >>
    /\ fetched = None

Init ==
    /\ message \in SeqsUpTo(OrchVocab, MaxOrchMsgLen)
    /\ provider \in Providers
    /\ has_key \in BOOLEAN
    /\ seed_urls \in 0..MaxSeeds
    /\ Start
    /\ NoRank
    /\ NoLLM
    /\ NoFetch
    /\ NoLoaders

Next ==
    \/ Classify
    \/ FetchPages
    \/ RankEvidence
    \/ SkipTravel
    \/ CallTravel
    \/ ResumeTravel
    \/ CreateTasks
    \/ \E name \in Agents : StartTask(name)
    \/ \E name \in Agents : Complete(name)
    \/ Join
    \/ DetectConflicts
    \/ Emit

Spec == Init /\ [][Next]_vars

\* the event loop runs every ready step, and every HTTP exchange ends (the
\* client's timeout and the bounded retry loop)
FairSpec == Spec /\ WF_vars(Next)

\* classify_query alone, over the richer vocabulary
InitClassify ==
    /\ message \in SeqsUpTo(Vocab, MaxMsgLen)
    /\ provider = "stub"
    /\ has_key = FALSE
    /\ seed_urls = 0
    /\ Start
    /\ NoRank
    /\ NoLLM
    /\ NoFetch
    /\ NoLoaders

NextClassify == Classify

SpecClassify == InitClassify /\ [][NextClassify]_vars

----------------------------------------------------------------------------
(* rank_chunks *)

\* A text is a sequence of lines; of a line, the numbers of white-space
\* characters before its first and after its last other character, and the
\* number of characters from the first to the last of these (0: a blank line).
Line(lead, body, trail) == [lead |-> lead, body |-> body, trail |-> trail]

max_chars == 900

RECURSIVE SumBodies(_)
SumBodies(lines) ==
    IF lines = << >> THEN 0 ELSE Head(lines).body + SumBodies(Tail(lines))

IsNotBlank(line) == line.body > 0

\* len("\n".join(line.strip() for line in text.splitlines() if line.strip()))
NormLen(text) ==
    LET kept == SelectSeq(text, IsNotBlank)
    IN  IF kept = << >> THEN 0 ELSE SumBodies(kept) + Len(kept) - 1

\* a window text[start:end] of the normalised text
Window(text, start, end) == [of |-> text, start |-> start, end |-> end]

RECURSIVE ChunkLoopOverlap(_, _, _, _)
\* variant: each window begins 100 characters before the end of the one before
ChunkLoopOverlap(text, n, start, acc) ==
    IF start < n
        THEN LET end == IF n < start + max_chars THEN n ELSE start + max_chars
             IN  ChunkLoopOverlap(text, n, IF end = n THEN n ELSE end - 100,
                                  Append(acc, Window(text, start, end)))
        ELSE acc

RECURSIVE ChunkLoop(_, _, _, _)
\* while start < len(text): end = min(len(text), start + max_chars); ...
ChunkLoop(text, n, start, acc) ==
    IF start < n
        THEN LET end == IF n < start + max_chars THEN n ELSE start + max_chars
             IN  ChunkLoop(text, n, end, Append(acc, Window(text, start, end)))
        ELSE acc

_chunk_text(text) ==
    LET n == NormLen(text)
    IN  IF n = 0 THEN << >> ELSE ChunkLoop(text, n, 0, << >>)

\* texts of the documents rank_chunks is explored on: empty, white space
\* only, one short line, and 901 characters once normalised
TextEmpty == << >>
TextBlank == << Line(2, 0, 0), Line(0, 0, 1) >>
TextShort == << Line(1, 33, 0) >>
TextLong == << Line(0, 500, 2), Line(0, 0, 0), Line(3, 400, 0) >>

DocChoices ==
    { [url |-> "https://a.example", title |-> "A", text |-> TextEmpty],
      [url |-> "https://b.example", title |-> "B", text |-> TextBlank],
      [url |-> "https://c.example", title |-> "C", text |-> TextShort],
      [url |-> "https://d.example", title |-> "D", text |-> TextLong] }

RECURSIVE AllChunks(_)
\* the loop over docs: (url, title, window) for every window of every doc
AllChunks(ds) ==
    IF ds = << >> THEN << >>
    ELSE [i \in 1..Len(_chunk_text(Head(ds).text)) |->
            [url |-> Head(ds).url, title |-> Head(ds).title,
             text |-> _chunk_text(Head(ds).text)[i]]]
         \o AllChunks(Tail(ds))

\* what a scorer answers on n inputs: the score of the i-th input, in hundredths
ScoreShapes == {"descending", "ascending", "constant", "zigzag"}

ScoreOf(shape, i) ==
    CASE shape = "descending" -> 90 - 10 * i
      [] shape = "ascending" -> 10 * i
      [] shape = "constant" -> 50
      [] shape = "zigzag" -> IF i % 2 = 1 THEN 20 ELSE 80

\* a scorer returns scores, or is unavailable or throws
ScorerOutcomes(n) ==
    { [kind |-> "return", value |-> [i \in 1..n |-> ScoreOf(sh, i)]] : sh \in ScoreShapes }
        \cup { [kind |-> "raise", error |-> ScorerError] }

\* seq[:k]
PySlice(seq, k) ==
    IF k >= 0 THEN SubSeq(seq, 1, IF k < Len(seq) THEN k ELSE Len(seq))
    ELSE SubSeq(seq, 1, IF Len(seq) + k > 0 THEN Len(seq) + k ELSE 0)

\* position of seq[i] after a stable sort by score, highest first
SortedPosition(seq, i) ==
    1 + Cardinality({ j \in 1..Len(seq) :
                        \/ seq[j].score > seq[i].score
                        \/ seq[j].score = seq[i].score /\ j < i })

\* variant: the list is left in the order it came in
Unsorted(seq) == seq

\* sorted(seq, key=lambda x: x.score, reverse=True)
SortByScore(seq) ==
    [p \in 1..Len(seq) |-> seq[CHOOSE i \in 1..Len(seq) : SortedPosition(seq, i) = p]]

\* RankedChunk(url, title, text, score) for (u, t, tx), s in zip(chunks, scores)
Scored(cs, scores) ==
    [i \in 1..(IF Len(cs) < Len(scores) THEN Len(cs) ELSE Len(scores)) |->
        [url |-> cs[i].url, title |-> cs[i].title, text |-> cs[i].text, score |-> scores[i]]]

_bi_encoder_rank(cs, scores, k) == PySlice(SortByScore(Scored(cs, scores)), k)

_tfidf_rank(cs, scores, k) == PySlice(SortByScore(Scored(cs, scores)), k)

\* variant: the first stage keeps every window
FirstStageAll == Len(chunks)

\* min(len(chunks), top_k * 3)
FirstStageK == IF Len(chunks) < top_k * 3 THEN Len(chunks) ELSE top_k * 3

\* variant: the except branch returns the candidates untruncated
RerankFallbackAll(cands, k) == cands

\* variant: the except branch returns no candidate
RerankFallbackNone(cands, k) == << >>

\* except Exception: return candidates[:top_k]
RerankFallback(cands, k) == PySlice(cands, k)

\* c.score = float(s) for c, s in zip(candidates, scores); sort; [:top_k]
RerankScored(cands, scores, k) ==
    PySlice(SortByScore(Scored(cands, scores)), k)

_cross_encoder_rerank(cands, o, k) ==
    IF o.kind = "raise" THEN RerankFallback(cands, k)
    ELSE RerankScored(cands, o.value, k)

ScorerCall(scorer, n, o) ==
    [scorer |-> scorer, n |-> n, ok |-> o.kind = "return",
     scores |-> IF o.kind = "return" THEN o.value ELSE << >>]

orchVars == << message, provider, has_key, seed_urls, active_agents, pages,
               evidence, travel_out, inv, payloads, outcome, started, finished,
               concurrent_tasks, results, timings, conflicts, response, llm_calls,
               stage_calls >>

\* variant: no early return when there is no window
RankWindowNoGuard ==
    /\ pc = "rank_window"
    /\ chunks' = AllChunks(docs)
    /\ pc' = "rank_semantic"
    /\ UNCHANGED << orchVars, loaderVars, llmVars, fetchVars, raised, docs, top_k, candidates, first_stage,
                    scorer_calls, ranked >>

\* the documents are cut into windows; no window: return []
RankWindow ==
    /\ pc = "rank_window"
    /\ chunks' = AllChunks(docs)
    /\ IF chunks' = << >>
         THEN ranked' = << >> /\ pc' = "rank_returned"
         ELSE ranked' = ranked /\ pc' = "rank_semantic"
    /\ UNCHANGED << orchVars, loaderVars, llmVars, fetchVars, raised, docs, top_k, candidates, first_stage, scorer_calls >>

\* stage 1: try: candidates = _bi_encoder_rank(...)
RankSemantic ==
    /\ pc = "rank_semantic"
    /\ \E o \in ScorerOutcomes(Len(chunks)) :
        /\ scorer_calls' = Append(scorer_calls, ScorerCall("bi_encoder", Len(chunks), o))
        /\ IF o.kind = "raise"
             THEN /\ pc' = "rank_lexical"
                  /\ UNCHANGED << candidates, first_stage >>
             ELSE /\ candidates' = _bi_encoder_rank(chunks, o.value, FirstStageK)
                  /\ first_stage' = candidates'
                  /\ pc' = "rank_rerank"
    /\ UNCHANGED << orchVars, loaderVars, llmVars, fetchVars, raised, docs, top_k, chunks, ranked >>

\* stage 1: except Exception: candidates = _tfidf_rank(...), which is not guarded
RankLexical ==
    /\ pc = "rank_lexical"
    /\ \E o \in ScorerOutcomes(Len(chunks)) :
        /\ scorer_calls' = Append(scorer_calls, ScorerCall("tfidf", Len(chunks), o))
        /\ IF o.kind = "raise"
             THEN /\ raised' = o.error
                  /\ pc' = "rank_raised"
                  /\ UNCHANGED << candidates, first_stage >>
             ELSE /\ candidates' = _tfidf_rank(chunks, o.value, FirstStageK)
                  /\ first_stage' = candidates'
                  /\ pc' = "rank_rerank"
                  /\ UNCHANGED raised
    /\ UNCHANGED << orchVars, loaderVars, llmVars, fetchVars, docs, top_k, chunks, ranked >>

\* stage 2: return _cross_encoder_rerank(query, candidates, top_k)
RankRerank ==
    /\ pc = "rank_rerank"
    /\ \E o \in ScorerOutcomes(Len(candidates)) :
        /\ scorer_calls' = Append(scorer_calls, ScorerCall("cross_encoder", Len(candidates), o))
        /\ ranked' = _cross_encoder_rerank(candidates, o, top_k)
        /\ candidates' = IF o.kind = "raise" THEN candidates
                         ELSE SortByScore(Scored(candidates, o.value))
    /\ pc' = "rank_returned"
    /\ UNCHANGED << orchVars, loaderVars, llmVars, fetchVars, raised, docs, top_k, chunks, first_stage >>

\* top_k values rank_chunks is explored on
TopKs == (-1)..MaxTopK

InitRank ==
    /\ docs \in SeqsUpTo(DocChoices, MaxDocs)
    /\ top_k \in TopKs
    /\ chunks = << >>
    /\ candidates = << >>
    /\ first_stage = << >>
    /\ scorer_calls = << >>
    /\ ranked = None
    /\ NoLLM
    /\ NoFetch
    /\ NoLoaders
    /\ pc = "rank_window"
    /\ message = << >>
    /\ provider = "stub"
    /\ has_key = FALSE
    /\ seed_urls = 0
    /\ Locals

NextRank ==
    \/ RankWindow
    \/ RankSemantic
    \/ RankLexical
    \/ RankRerank

SpecRank == InitRank /\ [][NextRank]_vars

----------------------------------------------------------------------------
(* Properties of orchestrate *)

Active(name) == InList(name, active_agents)
Ended(name) == inv[name] \in {"returned", "raised"}
FanOutAgents == {"financial", "health"}
AfterJoin == pc \in {"conflicts", "emit", "done"}
ExactPlaceholder(name) == [error |-> outcome[name].error.msg, confidence |-> Num(0)]

\* C1: in a call in which travel is active, the travel invocation has ended
\* (returned, or raised and aborted the pipeline) before the financial or the
\* health invocation is created or started; after a failure of travel neither
\* is ever created.
C1_TravelBeforeFanOut ==
    Active("travel") =>
        /\ \A a \in FanOutAgents : inv[a] # "none" => inv["travel"] = "returned"
        /\ \A i \in 1..Len(started) :
                started[i] \in FanOutAgents => finished # << >> /\ finished[1] = "travel"
        /\ pc \in {"fanout", "gather", "conflicts", "emit", "done"} => Ended("travel")

C1_Witness ==
    /\ Active("travel")
    /\ inv["travel"] = "returned"
    /\ inv["financial"] = "running"
    /\ inv["health"] = "running"

\* C2: when financial and health both run and one raises while the other
\* returns, the slot of the one that returned holds the result it returned, and
\* no error placeholder, whichever fails and in whichever order they end.
C2_FanOutIsolation ==
    \A a, b \in FanOutAgents :
        (a # b /\ inv[a] = "returned" /\ inv[b] = "raised") =>
            /\ AfterJoin => /\ a \in DOMAIN results
                            /\ results[a] = outcome[a].value
                            /\ "error" \notin DOMAIN results[a]
            /\ pc = "done" => /\ a \in DOMAIN response
                              /\ response[a] = outcome[a].value
                              /\ "error" \notin DOMAIN response[a]

\* health returned first, financial raised afterwards
C2_Witness ==
    /\ pc = "done"
    /\ inv["financial"] = "raised"
    /\ inv["health"] = "returned"
    /\ FinishedTasks = <<"health", "financial">>

\* C3: whenever orchestrate returns a response, every agent of active_agents
\* has a key in it, holding the envelope the agent returned or a failure
\* placeholder.
C3_EveryActiveAgentHasSlot ==
    pc = "done" =>
        \A i \in 1..Len(active_agents) :
            LET a == active_agents[i]
            IN  /\ a \in DOMAIN response
                /\ \/ inv[a] = "returned" /\ response[a] = outcome[a].value
                   \/ inv[a] = "raised" /\ "error" \in DOMAIN response[a]

C3_Witness ==
    /\ pc = "done"
    /\ Len(active_agents) = 3
    /\ inv["travel"] = "returned"
    /\ inv["financial"] = "returned"
    /\ inv["health"] = "raised"

FanOutFailure == \E a \in FanOutAgents : inv[a] = "raised"

\* C4: when the financial or the health invocation raises in the fan-out, its
\* slot is exactly {error: message, confidence: 0.0}, and the pipeline goes on:
\* conflict detection runs over the results collected and a response is
\* returned.
C4_FailureBecomesPlaceholder ==
    /\ [](\A a \in FanOutAgents : inv[a] = "raised" =>
            /\ AfterJoin => a \in DOMAIN results /\ results[a] = ExactPlaceholder(a)
            /\ pc = "done" => a \in DOMAIN response /\ response[a] = ExactPlaceholder(a))
    /\ []((FanOutFailure /\ pc = "done") =>
            response["conflicts"] = _detect_conflicts(results, ResultKeys))
    /\ (FanOutFailure ~> (pc = "done" /\ response # None /\ raised = None))

C4_Witness ==
    /\ pc = "done"
    /\ inv["financial"] = "raised"
    /\ inv["health"] = "raised"
    /\ response["financial"] = [error |-> "Invalid JSON from model", confidence |-> Num(0)]

\* C5: of the agent invocations (those of an orchestrate call that is past
\* stage 2) only a failure of travel makes orchestrate raise, and it raises travel's exception; a failure of financial, of health
\* or of both never does; when travel fails neither financial nor health is
\* invoked, and no response is returned.
C5_OnlyTravelFailureRaises ==
    /\ ((pc = "raised" \/ raised # None) /\ "rag_rank_ms" \in timings) =>
            /\ Active("travel") /\ inv["travel"] = "raised"
            /\ raised = outcome["travel"].error
            /\ response = None
    /\ inv["travel"] = "raised" =>
            /\ \A a \in FanOutAgents : inv[a] = "none" /\ payloads[a] = None
            /\ pc \in {"await_travel", "raised"}
    /\ FanOutFailure => pc # "raised" /\ raised = None

C5_Witness ==
    /\ pc = "raised"
    /\ inv["travel"] = "raised"
    /\ Len(active_agents) = 3

\* both fan-out agents failed and a response was returned all the same
C5_BothFailWitness ==
    /\ pc = "done"
    /\ inv["financial"] = "raised"
    /\ inv["health"] = "raised"
    /\ raised = None

travel_score == Score(_TRAVEL_PATTERNS, Lower(message))
health_score == Score(_HEALTH_PATTERNS, Lower(message))
finance_score == Score(_FINANCE_PATTERNS, Lower(message))
Classified == pc # "classify"
ActiveSet == { active_agents[i] : i \in 1..Len(active_agents) }

\* C10: with the stub provider and no seed URLs orchestrate returns a
\* response whose agent keys are exactly the active agents, each holding a
\* result with _stub true; a travel-only message gives active_agents
\* [travel, financial] and no health key, a message matching no pattern gives
\* all three keys.
C10_StubEndToEnd ==
    (provider = "stub" /\ seed_urls = 0) =>
        /\ pc # "raised" /\ raised = None
        /\ pc = "done" =>
            /\ DOMAIN response \cap Agents = ActiveSet
            /\ \A a \in ActiveSet :
                    "_stub" \in DOMAIN response[a] /\ response[a]["_stub"] = TRUE
            /\ response["active_agents"] = active_agents
            /\ (travel_score >= 1 /\ health_score = 0 /\ finance_score = 0) =>
                    /\ response["active_agents"] = <<"travel", "financial">>
                    /\ "health" \notin DOMAIN response
            /\ (travel_score = 0 /\ health_score = 0 /\ finance_score = 0) =>
                    Agents \subseteq DOMAIN response

C10_Witness ==
    /\ pc = "done"
    /\ provider = "stub"
    /\ seed_urls = 0
    /\ active_agents = <<"travel", "financial">>
    /\ "health" \notin DOMAIN response
    /\ response["financial"]["_stub"] = TRUE

\* C30: join-then-write: while the fan-out is under way no step of a branch
\* writes the results map; the one step that writes it is taken when every
\* started branch has ended, by returning or by raising, and it adds one slot
\* per branch, the slot of each name holding the outcome of the branch of that
\* name, and leaves the slots already there as they are.
C30_JoinThenWrite ==
    [][(pc \in {"fanout", "gather"}) =>
        \/ results' = results
        \/ /\ \A i \in 1..Len(concurrent_tasks) :
                    inv[concurrent_tasks[i]] \in {"returned", "raised"}
           /\ pc' = "conflicts"
           /\ DOMAIN results' =
                    DOMAIN results \cup { concurrent_tasks[i] : i \in 1..Len(concurrent_tasks) }
           /\ Cardinality(DOMAIN results') = Cardinality(DOMAIN results) + Len(concurrent_tasks)
           /\ \A x \in DOMAIN results' :
                    results'[x] = IF InList(x, concurrent_tasks)
                                    THEN Slot(outcome[x]) ELSE results[x]]_vars

\* the join has just written both slots; health had ended before financial,
\* which raised
C30_Witness ==
    /\ pc = "conflicts"
    /\ concurrent_tasks = <<"financial", "health">>
    /\ FinishedTasks = <<"health", "financial">>
    /\ inv["financial"] = "raised"
    /\ results["financial"] = Placeholder(outcome["financial"].error)
    /\ results["health"] = outcome["health"].value

\* C31: when financial and health are both active, both tasks exist by the
\* time orchestrate waits for either; neither start waits for the other
\* invocation to end: financial can begin as soon as orchestrate waits, and
\* health can begin while financial is still under way.
C31_BothStartedBeforeAwait ==
    (InList("financial", active_agents) /\ InList("health", active_agents) /\ pc = "gather") =>
        /\ inv["financial"] # "none" /\ inv["health"] # "none"
        /\ concurrent_tasks = <<"financial", "health">>
        /\ inv["financial"] = "created" => ENABLED StartTask("financial")
        /\ (inv["health"] = "created" /\ inv["financial"] = "running")
                => ENABLED StartTask("health")

\* both invocations are under way and neither has ended: either may end first
C31_Witness ==
    /\ pc = "gather"
    /\ inv["financial"] = "running"
    /\ inv["health"] = "running"
    /\ ENABLED Complete("financial")
    /\ ENABLED Complete("health")

\* the two orders in which the fan-out invocations end
C31_FinancialFirst == pc = "done" /\ FinishedTasks = <<"financial", "health">>
C31_HealthFirst == pc = "done" /\ FinishedTasks = <<"health", "financial">>

\* C32: financial and health are each invoked with the result the travel
\* agent returned in the same call as upstream when travel is active, and with
\* no upstream when travel is not active; the travel agent is never invoked
\* with an upstream.
C32_UpstreamIsTravelResult ==
    /\ payloads["travel"] # None => "upstream" \notin DOMAIN payloads["travel"]
    /\ \A a \in FanOutAgents :
            payloads[a] # None =>
                IF InList("travel", active_agents)
                    THEN /\ inv["travel"] = "returned"
                         /\ "upstream" \in DOMAIN payloads[a]
                         /\ payloads[a]["upstream"] = outcome["travel"].value
                    ELSE "upstream" \notin DOMAIN payloads[a]

\* travel, financial and health all ran: both fan-out payloads carry the
\* travel result, the travel payload carries no upstream
C32_Witness ==
    /\ pc = "done"
    /\ inv["travel"] = "returned"
    /\ InList("health", active_agents)
    /\ \A a \in FanOutAgents :
            /\ "upstream" \in DOMAIN payloads[a]
            /\ payloads[a]["upstream"] = results["travel"]
    /\ "upstream" \notin DOMAIN payloads["travel"]

\* health alone ran, with no upstream
C32_NoTravelWitness ==
    /\ pc = "done"
    /\ active_agents = <<"health">>
    /\ payloads["health"] # None
    /\ "upstream" \notin DOMAIN payloads["health"]

\* C33: the evidence map of a response has exactly one bucket per active
\* agent's topic (travel for travel, finance for financial, health for
\* health), none for an inactive agent, and every agent is invoked with the
\* bucket of its own topic.
C33_OneBucketPerActiveTopic ==
    LET topic == [a \in Agents |->
                    CASE a = "travel" -> "travel"
                      [] a = "financial" -> "finance"
                      [] a = "health" -> "health"]
    IN  /\ pc = "done" =>
            DOMAIN response["evidence"] = { topic[a] : a \in ActiveSet }
        /\ \A a \in Agents :
                payloads[a] # None =>
                    /\ topic[a] \in DOMAIN evidence
                    /\ payloads[a]["evidence"] = evidence[topic[a]]
                    /\ pages > 0 => payloads[a]["evidence"][1].ranked_for = topic[a]

\* pages were fetched, travel and financial are active and health is not
C33_Witness ==
    /\ pc = "done"
    /\ pages > 0
    /\ active_agents = <<"travel", "financial">>
    /\ DOMAIN response["evidence"] = {"travel", "finance"}
    /\ payloads["financial"]["evidence"] = response["evidence"]["finance"]
    /\ response["evidence"]["finance"] # response["evidence"]["travel"]

CallsOf(fn) == SelectSeq(stage_calls, LAMBDA c : c.fn = fn)

\* C34: with no seed URLs fetch_pages is never called; whenever no page was
\* fetched, for want of seeds or because every fetch was dropped, rank_chunks
\* is never called and every evidence bucket is empty; the agents are invoked
\* all the same.
C34_NoPagesNoRanking ==
    /\ [](/\ seed_urls = 0 => CallsOf("fetch_pages") = << >>
          /\ (pc \notin {"classify", "fetch"} /\ pages = 0) =>
                /\ CallsOf("rank_chunks") = << >>
                /\ \A t \in DOMAIN evidence : evidence[t] = << >>
          /\ (pc = "done" /\ pages = 0) =>
                /\ \A i \in 1..Len(active_agents) : InList(active_agents[i], started)
                /\ \A t \in DOMAIN response["evidence"] : response["evidence"][t] = << >>)
    /\ ((pc = "rank" /\ pages = 0) ~> (started # << >>))

\* a seed URL was supplied and its fetch was dropped: fetch_pages was called,
\* rank_chunks was not, and the agents ran
C34_Witness ==
    /\ pc = "done"
    /\ seed_urls > 0
    /\ pages = 0
    /\ stage_calls = << StageCall("fetch_pages", "") >>
    /\ Len(started) = Len(active_agents)
    /\ DOMAIN response["evidence"] # {}

\* C40: whenever the financial or the health agent fails, the conflicts of the
\* response hold a low-confidence warning naming that agent, with the
\* confidence 0.0 of its placeholder.
C40_FailureIsWarnedAbout ==
    pc = "done" =>
        \A a \in FanOutAgents :
            inv[a] = "raised" =>
                /\ response[a]["confidence"] = Num(0)
                /\ \E i \in 1..Len(response["conflicts"]) :
                        response["conflicts"][i] =
                            << "low confidence", IF a = "financial" THEN "Financial" ELSE "Health", 0 >>

\* travel returned, financial failed and health returned: the one warning for
\* financial
C40_Witness ==
    /\ pc = "done"
    /\ inv["travel"] = "returned"
    /\ inv["financial"] = "raised"
    /\ inv["health"] = "returned"
    /\ \E i \in 1..Len(response["conflicts"]) :
            response["conflicts"][i] = << "low confidence", "Financial", 0 >>
    /\ \A i \in 1..Len(response["conflicts"]) :
            response["conflicts"][i] # << "low confidence", "Health", 0 >>

\* C29: configured with an unrecognised provider, or with a provider that
\* needs a key and no key, orchestrate never returns a response, whichever
\* agents are active.
C29_ConfigErrorIsFatal ==
    (provider # "stub" /\ (provider \notin _PROVIDER_URLS \/ ~ has_key)) =>
        (pc # "done" /\ response = None)

----------------------------------------------------------------------------
(* Properties of classify_query *)

\* C6: coupling: whenever travel is in classify_query(m), financial is too.
C6_Coupling ==
    Classified => (InList("travel", active_agents) => InList("financial", active_agents))

\* travel matched, finance did not
C6_Witness ==
    /\ Classified
    /\ travel_score >= 1
    /\ finance_score = 0
    /\ InList("financial", active_agents)

\* C7: fallback: for a message matching none of the travel, health and
\* finance patterns classify_query returns exactly the three agents travel,
\* financial and health.
C7_Fallback ==
    (Classified /\ travel_score = 0 /\ health_score = 0 /\ finance_score = 0) =>
        /\ ActiveSet = Agents
        /\ Len(active_agents) = 3

\* "from" and "to" on different lines match no pattern
C7_Witness ==
    /\ Classified
    /\ message = <<"from", "\n", "to">>
    /\ ActiveSet = Agents

\* C8: classify_query returns a non-empty list without duplicates whose
\* members are all among travel, financial, health.
C8_NonEmptyNoDuplicates ==
    Classified =>
        /\ active_agents # << >>
        /\ \A i, j \in 1..Len(active_agents) : active_agents[i] = active_agents[j] => i = j
        /\ ActiveSet \subseteq Agents

\* travel and finance both matched: financial is listed once
C8_Witness ==
    /\ Classified
    /\ travel_score >= 1
    /\ finance_score >= 1
    /\ health_score >= 1
    /\ Len(active_agents) = 3

Before(a, b, list) ==
    \A i, j \in 1..Len(list) : (list[i] = a /\ list[j] = b) => i < j

C28_ActiveIffMatched ==
    Classified =>
        LET matched == [a \in Agents |->
                            CASE a = "travel" -> travel_score >= 1
                              [] a = "health" -> health_score >= 1
                              [] a = "financial" -> finance_score >= 1]
        IN  \A a \in Agents :
                a \in ActiveSet <=>
                    \/ matched[a]
                    \/ a = "financial" /\ matched["travel"]
                    \/ \A b \in Agents : ~ matched[b]

\* two travel patterns matched and nothing else: travel and financial, as for
\* one
C28_Witness ==
    /\ Classified
    /\ travel_score >= 2
    /\ health_score = 0
    /\ finance_score = 0
    /\ ActiveSet = {"travel", "financial"}

----------------------------------------------------------------------------
(* _chunk_text on its own *)

\* the lines of the texts _chunk_text is explored on: a blank line, and lines
\* whose lengths add up to less than, exactly and more than one and two windows
LineChoices ==
    { Line(2, 0, 1), Line(1, 1, 0), Line(0, 400, 2), Line(3, 499, 0), Line(0, 899, 0) }

\* _chunk_text(text) for the text of the one document
ChunkText ==
    /\ pc = "chunk_text"
    /\ chunks' = _chunk_text(docs[1].text)
    /\ pc' = "chunk_returned"
    /\ UNCHANGED << orchVars, loaderVars, llmVars, fetchVars, raised, docs, top_k, candidates, first_stage,
                    scorer_calls, ranked >>

InitChunk ==
    /\ \E text \in SeqsUpTo(LineChoices, MaxLines) :
            docs = << [url |-> "https://a.example", title |-> "A", text |-> text] >>
    /\ top_k = 0
    /\ chunks = << >>
    /\ candidates = << >>
    /\ first_stage = << >>
    /\ scorer_calls = << >>
    /\ ranked = None
    /\ pc = "chunk_text"
    /\ message = << >>
    /\ provider = "stub"
    /\ has_key = FALSE
    /\ seed_urls = 0
    /\ Locals
    /\ NoLLM
    /\ NoFetch
    /\ NoLoaders

NextChunk == ChunkText

SpecChunk == InitChunk /\ [][NextChunk]_vars

----------------------------------------------------------------------------
(* the cached model loaders, over the rank_chunks calls of one process *)

LoaderEvent(model, event, instance) ==
    [call |-> rank_call, model |-> model, event |-> event, instance |-> instance]

\* variant: no cache, the loader runs at every call
GetModelUncached(model) ==
    \E ok \in BOOLEAN :
        IF ok
          THEN LET made == [instance |-> Len(loader_log) + 1]
               IN  /\ model_cache' = [model_cache EXCEPT ![model] = made]
                   /\ loader_log' = Append(loader_log, LoaderEvent(model, "loaded", made))
          ELSE /\ loader_log' = Append(loader_log, LoaderEvent(model, "raised", None))
               /\ UNCHANGED model_cache

\* a call of an @lru_cache(maxsize=1) loader: a cached instance is returned
\* without running the loader; otherwise the loader runs, and what it returns
\* is cached, while what it raises is not
GetModel(model) ==
    IF model_cache[model] # None
      THEN /\ loader_log' = Append(loader_log, LoaderEvent(model, "cached", model_cache[model]))
           /\ UNCHANGED model_cache
      ELSE \E ok \in BOOLEAN :
            IF ok
              THEN LET made == [instance |-> Len(loader_log) + 1]
                   IN  /\ model_cache' = [model_cache EXCEPT ![model] = made]
                       /\ loader_log' = Append(loader_log, LoaderEvent(model, "loaded", made))
              ELSE /\ loader_log' = Append(loader_log, LoaderEvent(model, "raised", None))
                   /\ UNCHANGED model_cache

\* the next rank_chunks call: with no window it returns before any model is
\* asked for
LoaderCallBegin ==
    /\ pc = "loaders_idle"
    /\ rank_call < MaxRankCalls
    /\ rank_call' = rank_call + 1
    /\ \E windows \in BOOLEAN : pc' = IF windows THEN "loaders_semantic" ELSE "loaders_idle"
    /\ UNCHANGED << orchVars, rankVars, llmVars, fetchVars, raised, model_cache, loader_log >>

\* stage 1: _bi_encoder_rank asks for the embedding model; the stage, semantic
\* or lexical, yields candidates, or rank_chunks raises
LoaderSemantic ==
    /\ pc = "loaders_semantic"
    /\ GetModel("bi_encoder")
    /\ \E candidates_made \in BOOLEAN :
            pc' = IF candidates_made THEN "loaders_rerank" ELSE "loaders_idle"
    /\ UNCHANGED << orchVars, rankVars, llmVars, fetchVars, raised, rank_call >>

\* stage 2: _cross_encoder_rerank asks for the reranking model inside its try
LoaderRerank ==
    /\ pc = "loaders_rerank"
    /\ GetModel("cross_encoder")
    /\ pc' = "loaders_idle"
    /\ UNCHANGED << orchVars, rankVars, llmVars, fetchVars, raised, rank_call >>

InitLoaders ==
    /\ pc = "loaders_idle"
    /\ NoLoaders
    /\ message = << >>
    /\ provider = "stub"
    /\ has_key = FALSE
    /\ seed_urls = 0
    /\ Locals
    /\ NoRank
    /\ NoLLM
    /\ NoFetch

NextLoaders ==
    \/ LoaderCallBegin
    \/ LoaderSemantic
    \/ LoaderRerank

SpecLoaders == InitLoaders /\ [][NextLoaders]_vars

----------------------------------------------------------------------------
(* _to_evidence on its own *)

\* if len(item["snippets"]) < 6
SnippetCap == 6

\* variant: every chunk's text is kept
KeepAllSnippets(item) == TRUE

HasRoom(item) == Len(item.snippets) < SnippetCap

RECURSIVE ToEvidenceLoop(_, _)
\* the loop over chunks; by_url is the dict's values in insertion order
ToEvidenceLoop(chs, by_url) ==
    IF chs = << >> THEN by_url
    ELSE LET ch == Head(chs)
             known == \E i \in 1..Len(by_url) : by_url[i].url = ch.url
             items == IF known THEN by_url
                      ELSE Append(by_url, [url |-> ch.url, title |-> ch.title,
                                           snippets |-> << >>])
             k == CHOOSE i \in 1..Len(items) : items[i].url = ch.url
         IN  ToEvidenceLoop(Tail(chs),
                            IF HasRoom(items[k])
                                THEN [items EXCEPT ![k].snippets = Append(@, ch.text)]
                                ELSE items)

_to_evidence(chs) == ToEvidenceLoop(chs, << >>)

\* the urls of the ranked chunks _to_evidence is explored on, with the title
\* of each
EvidenceUrls == { "https://a.example", "https://b.example" }

TitleOfUrl(url) == IF url = "https://a.example" THEN "A" ELSE "B"

\* the ranked chunks of the given urls; the text of a chunk is modelled by
\* its rank
RankedOf(us) ==
    [i \in 1..Len(us) |->
        [url |-> us[i], title |-> TitleOfUrl(us[i]), text |-> i, score |-> 100 - i]]

\* evidence[topic] = _to_evidence(rank_chunks(...))
ToEvidence ==
    /\ pc = "to_evidence"
    /\ evidence' = [t \in {"travel"} |-> _to_evidence(ranked)]
    /\ pc' = "evidence_returned"
    /\ UNCHANGED << rankVars, llmVars, fetchVars, loaderVars, stage_calls, llm_calls, message, provider, has_key, seed_urls,
                    active_agents, pages, travel_out, inv, payloads, outcome, started,
                    finished, concurrent_tasks, results, timings, conflicts, response,
                    raised >>

InitEvidence ==
    /\ \E us \in SeqsUpTo(EvidenceUrls, MaxRanked) : ranked = RankedOf(us)
    /\ docs = << >>
    /\ top_k = 0
    /\ chunks = << >>
    /\ candidates = << >>
    /\ first_stage = << >>
    /\ scorer_calls = << >>
    /\ pc = "to_evidence"
    /\ message = << >>
    /\ provider = "stub"
    /\ has_key = FALSE
    /\ seed_urls = 0
    /\ Locals
    /\ NoLLM
    /\ NoFetch
    /\ NoLoaders

NextEvidence == ToEvidence

SpecEvidence == InitEvidence /\ [][NextEvidence]_vars

----------------------------------------------------------------------------
(* _detect_conflicts on its own *)

\* the parts of an agent's result that _detect_conflicts reads; each may be
\* missing
PlanParts(statuses) ==
    { EmptyDict } \cup
        { [plan |-> [travel_affordability_check |-> [status |-> st]]] : st \in statuses }

RiskEntries == { Risk("monsoon season", "high"), Risk("pickpockets", "low"), Str("note") }

RisksParts(lists) == { EmptyDict } \cup { [risks |-> rs] : rs \in lists }

ConfidenceParts(values) == { EmptyDict } \cup { [confidence |-> c] : c \in values }

\* an agent has no result, or one put together from the parts
ResultEntries(name, plans, risks, confidences) ==
    { EmptyDict } \cup { name :> (p @@ r @@ c) : p \in plans, r \in risks, c \in confidences }

TravelEntries ==
    ResultEntries("travel", PlanParts({"likely_not_ok"}),
                  RisksParts(SeqsUpTo(RiskEntries, MaxRisks)),
                  ConfidenceParts({Num(0)}))

FinancialEntries ==
    ResultEntries("financial", PlanParts({"likely_ok", "likely_not_ok", "uncertain"}),
                  { EmptyDict },
                  ConfidenceParts({Num(39), Num(40), Str("high")}))

HealthEntries ==
    ResultEntries("health", { EmptyDict },
                  RisksParts({ << Risk("altitude", "high") >> }),
                  ConfidenceParts({Num(20), Num(40)}))

InitConflicts ==
    /\ \E t \in TravelEntries : \E f \in FinancialEntries : \E h \in HealthEntries :
            results = t @@ f @@ h
    /\ pc = "conflicts"
    /\ message = << >>
    /\ provider = "stub"
    /\ has_key = FALSE
    /\ seed_urls = 0
    /\ OtherLocals
    /\ NoInvocation(Agents)
    /\ NoRank
    /\ NoLLM
    /\ NoFetch
    /\ NoLoaders

NextConflicts == DetectConflicts

SpecConflicts == InitConflicts /\ [][NextConflicts]_vars

----------------------------------------------------------------------------
(* run_agent on its own *)

\* the names run_agent is called with: the keys of PROMPTS and another one
RunnerNames == PromptNames \cup {"astrology"}

\* the upstream a caller holds: None, an empty result, a result of the travel agent
Upstreams == { None, EmptyDict, [agent |-> "travel", confidence |-> Num(90)] }

\* a caller awaits run_agent(name, llm=llm, user_profile=..., evidence=...,
\* upstream=travel_out), once
RunAgent(name) ==
    /\ pc = "run_agent"
    /\ started = << >>
    /\ Begin(name, travel_out)
    /\ UNCHANGED << rankVars, llmVars, fetchVars, loaderVars, stage_calls, message, provider, has_key, seed_urls, pc, active_agents,
                    pages, evidence, travel_out, concurrent_tasks, results, timings,
                    conflicts, response, raised >>

InitRunner ==
    /\ message \in SeqsUpTo(OrchVocab, MaxOrchMsgLen)
    /\ provider \in Providers
    /\ has_key \in BOOLEAN
    /\ seed_urls = 0
    /\ pc = "run_agent"
    /\ travel_out \in Upstreams
    /\ active_agents = << >>
    /\ pages = 0
    /\ evidence = EmptyDict
    /\ stage_calls = << >>
    /\ concurrent_tasks = << >>
    /\ timings = {}
    /\ conflicts = << >>
    /\ response = None
    /\ raised = None
    /\ NoInvocation(RunnerNames)
    /\ results = EmptyDict
    /\ NoRank
    /\ NoLLM
    /\ NoFetch
    /\ NoLoaders

NextRunner ==
    \/ \E name \in RunnerNames : RunAgent(name)
    \/ \E name \in RunnerNames : Complete(name)

SpecRunner == InitRunner /\ [][NextRunner]_vars

----------------------------------------------------------------------------
(* call_llm_json on its own, request by request *)

\* variant: the configuration is not validated
ConfigErrorNone(cfg) == None

\* variant: the key is tested before the provider
ConfigErrorKeyFirst(cfg) ==
    IF ~ cfg.api_key
        THEN LLMError("Missing API key. Set GROK_API_KEY or LLM_API_KEY env var.")
    ELSE IF cfg.provider \notin _PROVIDER_URLS THEN LLMError("Unknown provider")
    ELSE None

\* the validation of a non-stub configuration: the LLMError raised, or None
ConfigError(cfg) ==
    IF cfg.provider \notin _PROVIDER_URLS THEN LLMError("Unknown provider")
    ELSE IF ~ cfg.api_key
        THEN LLMError("Missing API key. Set GROK_API_KEY or LLM_API_KEY env var.")
    ELSE None

\* what one request ends with: a status in _RETRY_CODES, another status >= 400,
\* an exception of the HTTP client, a body whose content is a JSON object, a
\* content that is not JSON, a body or content of another shape (KeyError,
\* TypeError)
Exchanges ==
    { "retry_status", "error_status", "network_error", "json_object",
      "invalid_json", "malformed" }

RECURSIVE Pow2(_)
\* 2 ** n
Pow2(n) == IF n <= 0 THEN 1 ELSE 2 * Pow2(n - 1)

\* variant: the last attempt is retried as well
MayRetryOnLast(n, max) == n <= max

\* attempt < cfg.max_retries
MayRetry(n, max) == n < max

\* the call being executed
TheCall == llm_calls[1]

LLMEnd(o) ==
    /\ llm_result' = o
    /\ pc' = "llm_done"
    /\ UNCHANGED sleeps

\* wait = 2 ** attempt; usage.retries += 1; await asyncio.sleep(wait)
LLMBackoff ==
    /\ sleeps' = Append(sleeps, Pow2(attempt))
    /\ pc' = "llm_sleep"
    /\ UNCHANGED llm_result

\* call_llm_json up to its first await, or to its end
LLMCall ==
    /\ pc = "llm_call"
    /\ IF provider = "stub"
         THEN /\ llm_result' = Return(StubResult(TheCall.prompt, TheCall.payload))
              /\ pc' = "llm_done"
              /\ UNCHANGED attempt
       ELSE IF ConfigError(llm) # None
         THEN /\ llm_result' = Raise(ConfigError(llm))
              /\ pc' = "llm_done"
              /\ UNCHANGED attempt
       ELSE IF max_retries < 1
         THEN /\ llm_result' = Raise(LLMError("LLM exhausted retries"))
              /\ pc' = "llm_done"
              /\ UNCHANGED attempt
       ELSE /\ attempt' = 1
            /\ pc' = "llm_post"
            /\ UNCHANGED llm_result
    /\ UNCHANGED << orchVars, loaderVars, rankVars, fetchVars, raised, max_retries, requests, sleeps >>

\* variant: no except clause for json.JSONDecodeError, invalid JSON is handled
\* as every other exception
LLMPostNoJsonClause ==
    /\ pc = "llm_post"
    /\ \E x \in Exchanges :
        /\ requests' = Append(requests, x)
        /\ CASE x = "retry_status" ->
                    IF MayRetry(attempt, max_retries) THEN LLMBackoff
                    ELSE LLMEnd(Raise(LLMError("LLM status")))
             [] x = "error_status" -> LLMEnd(Raise(LLMError("LLM status")))
             [] x \in { "network_error", "malformed", "invalid_json" } ->
                    IF MayRetry(attempt, max_retries) THEN LLMBackoff
                    ELSE LLMEnd(Raise(LLMError("LLM call failed after max_retries attempts")))
             [] x = "json_object" ->
                    \E r \in ModelReplies("travel") :
                        LLMEnd(Return([r EXCEPT !["_usage"] =
                            [tokens |-> 0, latency_ms |-> 0, retries |-> Len(sleeps)]]))
    /\ UNCHANGED << orchVars, loaderVars, rankVars, fetchVars, raised, max_retries, attempt >>

\* the request of this attempt is answered and the loop body runs to its next
\* await or to the end of the call
LLMPost ==
    /\ pc = "llm_post"
    /\ \E x \in Exchanges :
        /\ requests' = Append(requests, x)
        /\ CASE x = "retry_status" ->
                    IF MayRetry(attempt, max_retries) THEN LLMBackoff
                    ELSE LLMEnd(Raise(LLMError("LLM status")))
             [] x = "error_status" -> LLMEnd(Raise(LLMError("LLM status")))
             [] x = "invalid_json" -> LLMEnd(Raise(LLMError("Invalid JSON from model")))
             [] x \in { "network_error", "malformed" } ->
                    IF MayRetry(attempt, max_retries) THEN LLMBackoff
                    ELSE LLMEnd(Raise(LLMError("LLM call failed after max_retries attempts")))
             [] x = "json_object" ->
                    \E r \in ModelReplies("travel") :
                        LLMEnd(Return([r EXCEPT !["_usage"] =
                            [tokens |-> 0, latency_ms |-> 0, retries |-> Len(sleeps)]]))
    /\ UNCHANGED << orchVars, loaderVars, rankVars, fetchVars, raised, max_retries, attempt >>

\* asyncio.sleep returns and the for loop moves on
LLMWake ==
    /\ pc = "llm_sleep"
    /\ attempt' = attempt + 1
    /\ pc' = "llm_post"
    /\ UNCHANGED << orchVars, loaderVars, rankVars, fetchVars, raised, max_retries, requests, sleeps,
                    llm_result >>

InitLLM ==
    /\ provider \in Providers
    /\ has_key \in BOOLEAN
    /\ max_retries \in 0..MaxRetries
    /\ message = << >>
    /\ \E name \in {"travel", "health"} : \E upstream \in { None, [agent |-> "travel"] } :
            llm_calls = << [prompt |-> PROMPTS(name),
                            payload |-> Payload(user_profile, << >>, upstream)] >>
    /\ seed_urls = 0
    /\ pc = "llm_call"
    /\ OtherLocals
    /\ inv = [a \in Agents |-> "none"]
    /\ payloads = [a \in Agents |-> None]
    /\ outcome = [a \in Agents |-> None]
    /\ started = << >>
    /\ finished = << >>
    /\ results = EmptyDict
    /\ attempt = 0
    /\ requests = << >>
    /\ sleeps = << >>
    /\ llm_result = None
    /\ NoRank
    /\ NoFetch
    /\ NoLoaders

NextLLM ==
    \/ LLMCall
    \/ LLMPost
    \/ LLMWake

SpecLLM == InitLLM /\ [][NextLLM]_vars

\* a request ends within the client's timeout and a sleep ends, after which
\* the event loop resumes the coroutine
FairSpecLLM == SpecLLM /\ WF_vars(NextLLM)

----------------------------------------------------------------------------
(* fetch_pages *)

_MIN_TEXT_LEN == 120

\* seed URLs fetch_pages is explored on; "" is falsy
SeedChoices ==
    { "", "https://www.Booking.com/hotel", "https://booking.com/", "https://notbooking.com/" }

\* urlparse(url).netloc, as its labels
Netloc(url) ==
    CASE url = "https://www.Booking.com/hotel" -> << "www", "Booking", "com" >>
      [] url = "https://booking.com/" -> << "booking", "com" >>
      [] url = "https://notbooking.com/" -> << "notbooking", "com" >>
      [] OTHER -> << >>

_domain(url) == Lower(Netloc(url))

\* an entry of allowed_domains: its leading dots and its labels
AllowLists ==
    { << >>,
      << [dots |-> 0, labels |-> << "booking", "com" >>] >>,
      << [dots |-> 1, labels |-> << "Booking", "com" >>] >> }

\* d.endswith("." + a), for a non-empty a
EndsWithDot(d, a) ==
    Len(a) < Len(d) /\ SubSeq(d, Len(d) - Len(a) + 1, Len(d)) = a

_allowed(url, allowed) ==
    IF allowed = << >> THEN TRUE
    ELSE LET d == _domain(url)
             clean == [i \in 1..Len(allowed) |-> Lower(allowed[i].labels)]
         IN  \E i \in 1..Len(clean) : d = clean[i] \/ EndsWithDot(d, clean[i])

RECURSIVE SelectUrls(_, _)
\* the loop over seed_urls, acc being the list urls so far
SelectUrls(ss, acc) ==
    IF ss = << >> THEN acc
    ELSE LET u == Head(ss)
             acc2 == IF u # "" /\ ~ InList(u, acc) /\ _allowed(u, allowed_domains)
                       THEN Append(acc, u) ELSE acc
         IN  IF Len(acc2) >= page_budget THEN acc2 ELSE SelectUrls(Tail(ss), acc2)

Pending == [pending |-> TRUE]

\* where a redirect may lead; the client is created with follow_redirects=True
RedirectTargets == { "https://booking.com/", "https://notbooking.com/" }

\* what client.get(url) ends with: the URL a redirect led to ("" for none) and
\* a status below 400 with a text of chars characters, a status >= 400, or an
\* exception
Answers ==
    { [via |-> "", kind |-> "page", chars |-> 119],
      [via |-> "", kind |-> "page", chars |-> 120],
      [via |-> "", kind |-> "error_status", chars |-> 0],
      [via |-> "", kind |-> "exception", chars |-> 0] }
    \cup { [via |-> t, kind |-> "page", chars |-> 120] : t \in RedirectTargets }

\* what _fetch_one returns
_fetch_one(url, a) ==
    IF a.kind = "page" /\ a.chars >= _MIN_TEXT_LEN
        THEN [url |-> url, title |-> "t", chars |-> a.chars]
        ELSE None

\* the loop over seed_urls; no URL: return []; otherwise one _fetch_one task
\* per URL, each of which sends its request
FetchSelect ==
    /\ pc = "fetch_select"
    /\ urls' = SelectUrls(seeds, << >>)
    /\ IF urls' = << >>
         THEN /\ fetched' = << >>
              /\ pc' = "fetch_returned"
              /\ UNCHANGED << requested, fetch_results >>
         ELSE /\ requested' = urls'
              /\ fetch_results' = [i \in 1..Len(urls') |-> Pending]
              /\ pc' = "fetch_wait"
              /\ UNCHANGED fetched
    /\ UNCHANGED << orchVars, loaderVars, rankVars, llmVars, raised, seeds, allowed_domains, page_budget >>

\* client.get of the i-th task ends, after a redirect or not, and the task returns
FetchAnswer(i) ==
    /\ pc = "fetch_wait"
    /\ i \in 1..Len(urls)
    /\ fetch_results[i] = Pending
    /\ \E a \in Answers :
        /\ a.via # urls[i]
        /\ requested' = IF a.via = "" THEN requested ELSE Append(requested, a.via)
        /\ fetch_results' = [fetch_results EXCEPT ![i] = _fetch_one(urls[i], a)]
    /\ UNCHANGED << orchVars, loaderVars, rankVars, llmVars, raised, pc, seeds, allowed_domains,
                    page_budget, urls, fetched >>

IsPage(r) == r # None

\* gather returns; the dicts among the results are the pages
FetchCollect ==
    /\ pc = "fetch_wait"
    /\ \A i \in 1..Len(urls) : fetch_results[i] # Pending
    /\ fetched' = SelectSeq(fetch_results, IsPage)
    /\ pc' = "fetch_returned"
    /\ UNCHANGED << orchVars, loaderVars, rankVars, llmVars, raised, seeds, allowed_domains,
                    page_budget, urls, requested, fetch_results >>

InitFetch ==
    /\ seeds \in SeqsUpTo(SeedChoices, MaxSeedUrls)
    /\ allowed_domains \in AllowLists
    /\ page_budget \in 0..MaxBudget
    /\ urls = << >>
    /\ requested = << >>
    /\ fetch_results = << >>
    /\ fetched = None
    /\ pc = "fetch_select"
    /\ message = << >>
    /\ provider = "stub"
    /\ has_key = FALSE
    /\ seed_urls = 0
    /\ Locals
    /\ NoRank
    /\ NoLLM
    /\ NoLoaders

NextFetch ==
    \/ FetchSelect
    \/ \E i \in 1..MaxSeedUrls : FetchAnswer(i)
    \/ FetchCollect

SpecFetch == InitFetch /\ [][NextFetch]_vars

----------------------------------------------------------------------------
(* Properties of rank_chunks *)

Returned == pc = "rank_returned"

LastCall == scorer_calls[Len(scorer_calls)]

RerankerFailed ==
    /\ Returned
    /\ scorer_calls # << >>
    /\ LastCall.scorer = "cross_encoder"
    /\ ~LastCall.ok

LexicalFirstStage ==
    \E i \in 1..Len(scorer_calls) : scorer_calls[i].scorer = "tfidf" /\ scorer_calls[i].ok

\* C11 as stated: for every non-empty document list and every integer top_k
\* the returned list has at most top_k elements.
C11_AtMostTopK ==
    (Returned /\ docs # << >>) => Len(ranked) <= top_k

\* C11: for every non-empty document list and every top_k >= 0 the list
\* rank_chunks returns has at most top_k elements, whichever first stage ran
\* and whether the reranker succeeded or failed.
C11_AtMostNonNegativeTopK ==
    (Returned /\ docs # << >> /\ top_k >= 0) => Len(ranked) <= top_k

\* lexical first stage, failing reranker, more candidates than top_k
C11_Witness ==
    /\ RerankerFailed
    /\ LexicalFirstStage
    /\ top_k = 1
    /\ Len(first_stage) > top_k
    /\ Len(ranked) = top_k

NonIncreasing(seq) ==
    \A i \in 1..Len(seq) : \A j \in 1..Len(seq) : i < j => seq[i].score >= seq[j].score

\* C12: the list rank_chunks returns has non-increasing scores in index
\* order, whichever first stage ran; they are the reranker's scores when it
\* succeeded and the first-stage scores when it failed.
C12_NonIncreasingScores ==
    Returned =>
        /\ NonIncreasing(ranked)
        /\ RerankerFailed =>
                \A i \in 1..Len(ranked) : ranked[i].score = first_stage[i].score

\* the reranker succeeded with scores that reverse a first-stage order of
\* distinct scores
C12_Witness ==
    /\ Returned
    /\ scorer_calls # << >>
    /\ LastCall.scorer = "cross_encoder" /\ LastCall.ok
    /\ Len(ranked) = 2
    /\ ranked[1].score > ranked[2].score
    /\ ranked[1] # first_stage[1]
    /\ first_stage[1].score > first_stage[2].score

\* C13: when the documents yield no window (no document, or only empty and
\* white-space texts) rank_chunks returns the empty list, raises nothing and
\* calls no scorer, whatever top_k is.
C13_NoWindowNoScorer ==
    (pc # "rank_window" /\ AllChunks(docs) = << >>) =>
        /\ Returned
        /\ ranked = << >>
        /\ raised = None
        /\ scorer_calls = << >>

\* two documents, one empty and one of white space only
C13_Witness ==
    /\ Returned
    /\ Len(docs) = 2
    /\ docs[1].text # docs[2].text
    /\ top_k = 2
    /\ ranked = << >>

\* C14: when the reranker is unavailable or throws, rank_chunks raises
\* nothing and returns a prefix of the first-stage candidates, in first-stage
\* order and with first-stage scores; for top_k >= 0 the prefix has
\* min(top_k, number of candidates) elements.
C14_RerankerFailureKeepsFirstStage ==
    RerankerFailed =>
        /\ raised = None
        /\ Len(ranked) <= Len(first_stage)
        /\ \A i \in 1..Len(ranked) : ranked[i] = first_stage[i]
        /\ top_k >= 0 =>
                Len(ranked) = IF top_k < Len(first_stage) THEN top_k ELSE Len(first_stage)

\* the reranker failed after a semantic first stage of three candidates, of
\* which two are returned
C14_Witness ==
    /\ RerankerFailed
    /\ ~LexicalFirstStage
    /\ Len(first_stage) = 3
    /\ top_k = 2
    /\ Len(ranked) = 2
    /\ ranked[1].score > ranked[2].score

\* C15 as stated: rank_chunks never raises to its caller, whichever scorers
\* fail.
C15_RankChunksNeverRaises ==
    pc # "rank_raised" /\ raised = None

----------------------------------------------------------------------------
(* Properties of _detect_conflicts *)

\* _detect_conflicts has returned
Detected == pc = "emit"

\* results["financial"]["plan"]["travel_affordability_check"]["status"], "" when
\* any of the keys is missing
FinancialStatus ==
    IF /\ "financial" \in DOMAIN results
       /\ "plan" \in DOMAIN results["financial"]
       /\ "travel_affordability_check" \in DOMAIN results["financial"]["plan"]
       /\ "status" \in DOMAIN results["financial"]["plan"]["travel_affordability_check"]
    THEN results["financial"]["plan"]["travel_affordability_check"]["status"]
    ELSE ""

\* the number of warnings of a kind, of every agent or of one
CountOf(kind) == Cardinality({ i \in 1..Len(conflicts) : conflicts[i][1] = kind })

CountFor(kind, name) ==
    Cardinality({ i \in 1..Len(conflicts) :
                    conflicts[i][1] = kind /\ conflicts[i][2] = Title(name) })

RisksOf(name) ==
    IF name \in DOMAIN results /\ "risks" \in DOMAIN results[name]
    THEN results[name]["risks"] ELSE << >>

IsHighEntry(risk) ==
    IsDict(risk) /\ "severity" \in DOMAIN risk /\ risk["severity"] = "high"

HighEntries(name) ==
    Cardinality({ i \in 1..Len(RisksOf(name)) : IsHighEntry(RisksOf(name)[i]) })

IsLowConfidence(name) ==
    /\ name \in DOMAIN results
    /\ "confidence" \in DOMAIN results[name]
    /\ IsNumber(results[name]["confidence"])
    /\ results[name]["confidence"].num < 40

\* C16: the affordability-risk warning is emitted exactly when the financial
\* result's plan.travel_affordability_check.status is "likely_not_ok", the
\* uncertain-affordability warning exactly when it is "uncertain"; a call
\* emits at most one of the two, once.
C16_AffordabilityWarning ==
    Detected =>
        /\ CountOf("affordability risk") = IF FinancialStatus = "likely_not_ok" THEN 1 ELSE 0
        /\ CountOf("uncertain about affordability") = IF FinancialStatus = "uncertain" THEN 1 ELSE 0
        /\ CountOf("affordability risk") + CountOf("uncertain about affordability") <= 1

\* the financial agent is uncertain while travel's own plan says
\* "likely_not_ok": one warning, the uncertain one
C16_Witness ==
    /\ Detected
    /\ FinancialStatus = "uncertain"
    /\ "travel" \in DOMAIN results /\ "plan" \in DOMAIN results["travel"]
    /\ CountOf("uncertain about affordability") = 1
    /\ CountOf("affordability risk") = 0

\* C17: for every results map and every agent, the number of high-severity
\* warnings tagged with the agent's title-cased name is the number of entries
\* of the agent's risks list whose severity is "high"; entries of another
\* severity, entries that are not maps and absent agents produce none.
C17_OneWarningPerHighRisk ==
    Detected =>
        /\ \A a \in Agents : CountFor("high-severity risk", a) = HighEntries(a)
        /\ CountOf("high-severity risk")
                = HighEntries("travel") + HighEntries("financial") + HighEntries("health")

\* travel owns two high entries, health one
C17_Witness ==
    /\ Detected
    /\ HighEntries("travel") = 2
    /\ HighEntries("health") = 1
    /\ CountFor("high-severity risk", "travel") = 2
    /\ CountFor("high-severity risk", "health") = 1

\* C18: every agent whose confidence is a number below 0.4 gets exactly one
\* low-confidence warning; an agent whose confidence is 0.4 or more, is not a
\* number or is missing gets none.
C18_OneWarningPerLowConfidence ==
    Detected =>
        \A a \in Agents : CountFor("low confidence", a) = IF IsLowConfidence(a) THEN 1 ELSE 0

\* financial at 0.39 and health at 0.20 are warned about; travel, whose
\* confidence is missing, is not
C18_Witness ==
    /\ Detected
    /\ "travel" \in DOMAIN results /\ "confidence" \notin DOMAIN results["travel"]
    /\ IsLowConfidence("financial") /\ IsLowConfidence("health")
    /\ CountOf("low confidence") = 2

NoSignal ==
    /\ FinancialStatus \notin {"likely_not_ok", "uncertain"}
    /\ \A a \in Agents : HighEntries(a) = 0 /\ ~IsLowConfidence(a)

\* C19: when the financial status is not flagged, no risk entry is of high
\* severity and no confidence is below 0.4, the list of conflicts is empty; so
\* it is for the empty results map.
C19_NoSignalNoConflict ==
    Detected =>
        /\ NoSignal => conflicts = << >>
        /\ results = EmptyDict => conflicts = << >>

\* three agents with results, none of them carrying a signal
C19_Witness ==
    /\ Detected
    /\ DOMAIN results = Agents
    /\ FinancialStatus = "likely_ok"
    /\ Len(RisksOf("travel")) = 2
    /\ NoSignal
    /\ conflicts = << >>

----------------------------------------------------------------------------
(* Properties of run_agent *)

UnknownNames == RunnerNames \ {"travel", "financial", "health"}

\* C20: run_agent called with a name other than travel, financial, health
\* ends at once, without ever waiting, by raising the KeyError of the prompt
\* lookup to its caller; it builds no payload and makes no call to
\* call_llm_json, whatever the provider and the credentials are.
C20_UnknownAgentFailsBeforeLLM ==
    \A name \in UnknownNames :
        InList(name, started) =>
            /\ inv[name] = "raised"
            /\ outcome[name] = Raise(KeyError(name))
            /\ InList(name, finished)
            /\ payloads[name] = None
            /\ llm_calls = << >>

\* the unknown name, under a provider whose calls would reach the network
C20_Witness ==
    /\ InList("astrology", started)
    /\ inv["astrology"] = "raised"
    /\ provider = "grok" /\ has_key
    /\ message # << >>

\* C21 as stated: the payload has an upstream entry if and only if the
\* caller passed an upstream result.
C21_UpstreamIffProvided ==
    \A name \in PromptNames :
        payloads[name] # None =>
            ("upstream" \in DOMAIN payloads[name] <=> travel_out # None)

\* C21: the payload handed to call_llm_json always has user_profile and
\* evidence; it has an upstream entry, the caller's upstream, if and only if
\* the caller passed an upstream that is neither None nor an empty dict.
C21_UpstreamIffTruthy ==
    \A name \in PromptNames :
        payloads[name] # None =>
            /\ {"user_profile", "evidence"} \subseteq DOMAIN payloads[name]
            /\ DOMAIN payloads[name] \subseteq {"user_profile", "evidence", "upstream"}
            /\ payloads[name]["user_profile"] = user_profile
            /\ "upstream" \in DOMAIN payloads[name]
                    <=> (travel_out # None /\ DOMAIN travel_out # {})
            /\ "upstream" \in DOMAIN payloads[name] => payloads[name]["upstream"] = travel_out
            /\ llm_calls # << >> /\ llm_calls[1].payload = payloads[name]

\* financial called with a result of the travel agent as upstream
C21_Witness ==
    /\ payloads["financial"] # None
    /\ travel_out # None /\ DOMAIN travel_out # {}
    /\ "upstream" \in DOMAIN payloads["financial"]
    /\ inv["financial"] = "running"

----------------------------------------------------------------------------
(* Properties of call_llm_json *)

\* C22: with provider "stub" call_llm_json sends no request and waits for
\* nothing, succeeds with or without a key, and returns the dict with _stub
\* true, the first 500 characters of the prompt and the payload it was given:
\* a function of prompt and payload only, so two such calls return equal
\* results.
C22_StubEchoesPayload ==
    provider = "stub" =>
        /\ pc \in {"llm_call", "llm_done"}
        /\ requests = << >> /\ sleeps = << >> /\ attempt = 0
        /\ pc = "llm_done" =>
                /\ llm_result.kind = "return"
                /\ llm_result.value["_stub"] = TRUE
                /\ llm_result.value["input"] = TheCall.payload
                /\ llm_result.value =
                        [x \in {"_stub", "prompt_used", "input", "note"} |->
                            CASE x = "_stub" -> TRUE
                              [] x = "prompt_used" -> Prefix500(TheCall.prompt)
                              [] x = "input" -> TheCall.payload
                              [] x = "note" ->
                                    "Set llm_provider='grok' and env GROK_API_KEY for real outputs."]

\* a stub call without a key whose payload carries an upstream
C22_Witness ==
    /\ provider = "stub" /\ ~ has_key
    /\ pc = "llm_done"
    /\ "upstream" \in DOMAIN TheCall.payload
    /\ llm_result.value["input"] = TheCall.payload

\* C23: with an unrecognised provider, or a recognised one and no API key,
\* call_llm_json ends in its first step by raising an LLMError: no request is
\* sent, no backoff wait is made and the retry loop is not entered.
C23_ConfigErrorRaisedAtOnce ==
    (provider # "stub" /\ (provider \notin _PROVIDER_URLS \/ ~ has_key)) =>
        /\ pc \in {"llm_call", "llm_done"}
        /\ requests = << >> /\ sleeps = << >> /\ attempt = 0
        /\ pc = "llm_done" =>
                llm_result.kind = "raise" /\ llm_result.error.exc = "LLMError"

\* the provider of no table, with a key and three attempts allowed
C23_Witness ==
    /\ provider = "groq" /\ has_key
    /\ max_retries = 3
    /\ pc = "llm_done"
    /\ llm_result.kind = "raise"

C25_AtMostMaxRetriesThenEnds ==
    /\ [](/\ attempt <= max_retries
          /\ Len(requests) <= max_retries
          /\ pc = "llm_done" =>
                /\ llm_result.kind = "return" =>
                        /\ IsDict(llm_result.value)
                        /\ provider = "stub" \/ requests[Len(requests)] = "json_object"
                /\ llm_result.kind = "raise" => llm_result.error.exc = "LLMError"
                /\ (/\ provider \in _PROVIDER_URLS /\ has_key
                    /\ \A i \in 1..Len(requests) :
                            requests[i] \in {"retry_status", "network_error", "malformed"})
                        => llm_result.kind = "raise" /\ Len(requests) = max_retries)
    /\ <>(pc = "llm_done")

\* three requests, a retryable status, an exception and a retryable status
\* again, with waits of 2 and 4 seconds between them
C25_Witness ==
    /\ pc = "llm_done"
    /\ max_retries = 3
    /\ requests = << "retry_status", "network_error", "retry_status" >>
    /\ sleeps = << 2, 4 >>
    /\ llm_result.kind = "raise"

\* C38: an error status outside the retry set, a retryable status on the last
\* attempt, and a reply whose content is not valid JSON each end the call with
\* an LLMError on the attempt they occur in: no sleep and no request follows.
C38_FatalOnThatAttempt ==
    \A i \in 1..Len(requests) :
        (\/ requests[i] \in {"error_status", "invalid_json"}
         \/ requests[i] = "retry_status" /\ i = max_retries) =>
            /\ i = Len(requests)
            /\ Len(sleeps) = i - 1
            /\ pc = "llm_done"
            /\ llm_result.kind = "raise"
            /\ llm_result.error.exc = "LLMError"

\* invalid JSON on the second of three attempts ends the call
C38_Witness ==
    /\ pc = "llm_done"
    /\ max_retries = 3
    /\ requests = << "retry_status", "invalid_json" >>
    /\ sleeps = << 2 >>
    /\ llm_result = Raise(LLMError("Invalid JSON from model"))

\* a retryable status on the last attempt
C38_LastAttemptWitness ==
    /\ pc = "llm_done"
    /\ max_retries = 2
    /\ requests = << "network_error", "retry_status" >>
    /\ llm_result.kind = "raise"

\* an error status outside the retry set on the first of three attempts
C38_ErrorStatusWitness ==
    /\ pc = "llm_done"
    /\ max_retries = 3
    /\ requests = << "error_status" >>
    /\ llm_result.kind = "raise"

----------------------------------------------------------------------------
(* Properties of fetch_pages *)

\* C26: within one call fetch_pages asks the client for no URL twice, and the
\* call returns at most page_budget documents, whatever page_budget and the
\* seed URLs are.
C26_NoRepeatAndWithinBudget ==
    /\ \A i, j \in 1..Len(urls) : urls[i] = urls[j] => i = j
    /\ pc = "fetch_returned" => Len(fetched) <= page_budget

\* C27: every URL requested passes the allow-list, so does the URL of every
\* document returned, and a failed or too-short page is left out without an
\* exception.
C27_OnlyAllowedRequested ==
    /\ \A i \in 1..Len(requested) : _allowed(requested[i], allowed_domains)
    /\ pc = "fetch_returned" =>
        /\ raised = None
        /\ \A i \in 1..Len(fetched) :
            /\ _allowed(fetched[i].url, allowed_domains)
            /\ fetched[i].chars >= _MIN_TEXT_LEN

----------------------------------------------------------------------------
(* Properties of _chunk_text *)

\* C35: the windows _chunk_text returns are each non-empty and at most
\* max_chars long, all but the last exactly max_chars long, and they follow one
\* another without gap or overlap from the first character of the normalised
\* text to its last, so that joined in order they are the normalised text; a
\* text with no line holding anything but white space gives no window.
C35_WindowsTileNormalisedText ==
    pc = "chunk_returned" =>
        LET text == docs[1].text
            n == NormLen(text)
            last == Len(chunks)
        IN  /\ (\A i \in 1..Len(text) : text[i].body = 0) <=> chunks = << >>
            /\ \A i \in 1..last :
                /\ chunks[i].of = text
                /\ chunks[i].start < chunks[i].end
                /\ chunks[i].end - chunks[i].start <= max_chars
                /\ i < last => chunks[i].end - chunks[i].start = max_chars
                /\ chunks[i].start = IF i = 1 THEN 0 ELSE chunks[i - 1].end
            /\ last > 0 => chunks[last].end = n

\* 1800 characters once normalised, blank line dropped: two full windows
C35_Witness ==
    /\ pc = "chunk_returned"
    /\ NormLen(docs[1].text) = 2 * max_chars
    /\ Len(chunks) = 2
    /\ chunks[2].start = max_chars
    /\ chunks[2].end = 2 * max_chars

\* 901 characters: a full window and a window of one character
C35_ShortLastWitness ==
    /\ pc = "chunk_returned"
    /\ Len(chunks) = 2
    /\ chunks[2].end - chunks[2].start = 1

----------------------------------------------------------------------------
(* Properties of the first stage of rank_chunks *)

\* the first stage has handed its candidates to the reranker
FirstStageDone == pc \in {"rank_rerank", "rank_returned"} /\ chunks # << >>

\* the call of the first-stage scorer that returned scores
FirstStageCall ==
    scorer_calls[CHOOSE i \in 1..Len(scorer_calls) :
                    scorer_calls[i].scorer \in {"bi_encoder", "tfidf"} /\ scorer_calls[i].ok]

\* the candidates are count windows with the highest scores of the first
\* stage, and the reranker is given these and no more
FirstStageHandsOver(count) ==
    LET sc == FirstStageCall.scores
    IN  /\ Len(first_stage) = count
        /\ \A i \in 1..Len(first_stage) :
            LET v == first_stage[i].score
            IN  /\ Cardinality({ j \in 1..Len(sc) : sc[j] > v }) < i
                /\ i <= Cardinality({ j \in 1..Len(sc) : sc[j] >= v })
                /\ \E j \in 1..Len(chunks) :
                    /\ sc[j] = v
                    /\ chunks[j].url = first_stage[i].url
                    /\ chunks[j].text = first_stage[i].text
        /\ \A i \in 1..Len(scorer_calls) :
            scorer_calls[i].scorer = "cross_encoder" =>
                /\ scorer_calls[i].n = count
                /\ scorer_calls[i].n <= 3 * top_k

\* C36 as stated: whatever top_k is, the first stage, semantic or lexical,
\* hands the reranker exactly min(total windows, 3 * top_k) candidates, the
\* windows with the highest first-stage scores, and the reranker scores no
\* more than 3 * top_k pairs.
C36_FirstStageCount ==
    FirstStageDone =>
        FirstStageHandsOver(IF Len(chunks) < 3 * top_k THEN Len(chunks) ELSE 3 * top_k)

\* C36: for every top_k >= 0 the first stage, semantic or lexical, hands the
\* reranker exactly min(total windows, 3 * top_k) candidates, the windows
\* with the highest first-stage scores, and the reranker scores no more than
\* 3 * top_k pairs.
C36_FirstStageCountNonNegativeTopK ==
    (FirstStageDone /\ top_k >= 0) =>
        FirstStageHandsOver(IF Len(chunks) < 3 * top_k THEN Len(chunks) ELSE 3 * top_k)

\* four windows, top_k 1, lexical first stage with rising scores: the three
\* last windows are handed over, the highest first
C36_Witness ==
    /\ Returned
    /\ top_k = 1
    /\ Len(chunks) = 4
    /\ LexicalFirstStage
    /\ Len(first_stage) = 3
    /\ first_stage[1].score > first_stage[3].score
    /\ first_stage[1].text = chunks[4].text
    /\ \E i \in 1..Len(scorer_calls) :
            scorer_calls[i].scorer = "cross_encoder" /\ scorer_calls[i].n = 3

----------------------------------------------------------------------------
(* Properties of _to_evidence *)

\* C37: _to_evidence returns one item per distinct url of the ranked chunks,
\* in the order in which the urls first appear, each with at most 6 snippets:
\* the texts of the first 6 chunks of its url, in ranked order.
C37_OneItemPerUrl ==
    pc = "evidence_returned" =>
        LET items == evidence["travel"]
            FirstOf(u) == CHOOSE i \in 1..Len(ranked) :
                            /\ ranked[i].url = u
                            /\ \A j \in 1..(i - 1) : ranked[j].url # u
        IN  /\ { items[i].url : i \in 1..Len(items) } = { ranked[i].url : i \in 1..Len(ranked) }
            /\ \A i, j \in 1..Len(items) :
                /\ items[i].url = items[j].url => i = j
                /\ i < j => FirstOf(items[i].url) < FirstOf(items[j].url)
            /\ \A i \in 1..Len(items) :
                LET mine == SelectSeq(ranked, LAMBDA c : c.url = items[i].url)
                IN  /\ Len(items[i].snippets) <= 6
                    /\ Len(items[i].snippets) = IF Len(mine) < 6 THEN Len(mine) ELSE 6
                    /\ \A k \in 1..Len(items[i].snippets) : items[i].snippets[k] = mine[k].text
                    /\ items[i].title = mine[1].title

\* seven chunks of one url: one item with six snippets, the text of the
\* seventh chunk left out
C37_Witness ==
    /\ pc = "evidence_returned"
    /\ Len(ranked) = 7
    /\ Len(evidence["travel"]) = 1
    /\ evidence["travel"][1].snippets = << 1, 2, 3, 4, 5, 6 >>

\* urls interleaved: the items follow the first appearances
C37_InterleavedWitness ==
    /\ pc = "evidence_returned"
    /\ Len(ranked) = 4
    /\ Len(evidence["travel"]) = 2
    /\ evidence["travel"][1].snippets = << 1, 3 >>
    /\ evidence["travel"][2].snippets = << 2, 4 >>

----------------------------------------------------------------------------
(* Properties of the cached model loaders *)

EventsOf(model) == SelectSeq(loader_log, LAMBDA e : e.model = model)

\* no model is loaded before a rank_chunks call asks for it, and once a loader
\* has returned every later call gets the instance it returned
LoadedLazilyAndKept ==
    /\ rank_call = 0 => (loader_log = << >> /\ \A m \in ModelNames : model_cache[m] = None)
    /\ \A m \in ModelNames :
        LET ev == EventsOf(m)
        IN  /\ Cardinality({ i \in 1..Len(ev) : ev[i].event = "loaded" }) <= 1
            /\ \A i, j \in 1..Len(ev) :
                (i < j /\ ev[i].event = "loaded") =>
                    /\ ev[j].event = "cached"
                    /\ ev[j].instance = ev[i].instance
                    /\ model_cache[m] = ev[i].instance

\* C39 as stated: over the rank_chunks calls of one process each model is
\* initialised on first use and at most once; every later call reuses the
\* instance, and no call runs the loader again.
C39_LoaderRunsOnce ==
    /\ LoadedLazilyAndKept
    /\ \A m \in ModelNames :
        Cardinality({ i \in 1..Len(EventsOf(m)) : EventsOf(m)[i].event # "cached" }) <= 1

\* C39: over the rank_chunks calls of one process each model is initialised
\* on first use and at most once; once its loader has returned, every later
\* call reuses the instance and the loader does not run again. A loader that
\* raised left nothing in the cache: it runs again at the next call.
C39_LoadedAtMostOnce ==
    /\ LoadedLazilyAndKept
    /\ \A m \in ModelNames :
        LET ev == EventsOf(m)
        IN  \A i \in 1..Len(ev) :
                ev[i].event # "cached" => \A j \in 1..(i - 1) : ev[j].event = "raised"

\* three calls: the embedding model is loaded by the first and reused by the
\* two others; the reranking model fails to load in the first and is loaded in
\* the second
C39_Witness ==
    /\ rank_call = 3
    /\ pc = "loaders_idle"
    /\ \E i, j, k \in 1..Len(loader_log) :
        /\ i < j /\ j < k
        /\ loader_log[i].model = "bi_encoder" /\ loader_log[i].event = "loaded"
        /\ loader_log[j].model = "bi_encoder" /\ loader_log[j].event = "cached"
        /\ loader_log[k].model = "bi_encoder" /\ loader_log[k].event = "cached"
        /\ loader_log[k].instance = loader_log[i].instance
        /\ loader_log[i].call = 1 /\ loader_log[k].call = 3
    /\ \E i, j \in 1..Len(loader_log) :
        /\ loader_log[i].model = "cross_encoder" /\ loader_log[i].event = "raised"
        /\ loader_log[j].model = "cross_encoder" /\ loader_log[j].event = "loaded"
        /\ loader_log[i].call = 1 /\ loader_log[j].call = 2

====
